---- MODULE Spec2Model ----
(***************************************************************************)
(* Fusion search of the vector-search application:                         *)
(*   app/services/search_service.py  (UltraFastSearchService)              *)
(*   scripts/parallel_search_fusion.py (SimplifiedParallelSearch)          *)
(*                                                                         *)
(* Scores are Python floats in the code.  Only comparisons of scores are   *)
(* made, so a score is modelled by the integer 100 * score (1.0 is 100,    *)
(* 0.9 is 90, the relevance floor 0.4 is 40).                              *)
(* A search_type string "a+b+c" is modelled by the sequence of its         *)
(* "+"-separated components <<"a","b","c">>; the f-string                  *)
(* f"{x}+{y}" is the concatenation x \o y.                                 *)
(* A text is a sequence of one-character strings.                          *)
(***************************************************************************)
EXTENDS Integers, Sequences, FiniteSets, TLC

VARIABLES
    pc,              \* position of the caller of search_fusion / simple_fusion
    query,           \* query_text argument
    count,           \* count argument (candidateCount)
    store_payload,   \* payload 'partNumber_airgas_text' of each stored point
    e_calls,         \* calls the exact worker issued so far, with their answers
    v_calls,         \* calls the vector worker issued so far, with their answers
    e_pc,            \* position of the worker running _exact_search_sync
    e_field,         \* index into search_fields of the exact worker's loop
    e_results,       \* results list of _exact_search_sync
    e_future,        \* exact_future: "pending", "returned" or "raised"
    v_pc,            \* position of the worker running _vector_search_sync
    v_vector,        \* query_vector of _vector_search_sync
    v_results,       \* results list of _vector_search_sync
    v_future,        \* vector_future: "pending", "returned" or "raised"
    exact_results,   \* argument of simple_fusion, as it was passed
    vector_results,  \* argument of simple_fusion, as it was passed
    all_idx,         \* position of the loop "for result in all_results"
    seen_ids,        \* dict seen_ids of simple_fusion
    fused_results,   \* list fused_results of simple_fusion
    last_result,     \* <<the element of all_results the loop handled last>>
    output,          \* value returned by the [:count] cut
    fusion_stats,    \* self._fusion_stats
    response,        \* what search_fusion gives its caller
    h_pc,            \* position of the HTTP handler optimized_search
    h_request,       \* its query parameters q, count, use_fusion
    h_clock,         \* seconds since the handler was entered
    h_response,      \* the HTTP response it gives
    s_pc,            \* position of each concurrent call in its stats updates
    s_time,          \* the time each concurrent call measured
    s_read,          \* the value each concurrent call read last from the stats
    cache,           \* the entries of the lru_cache of _get_embedding_cached,
                     \* the least recently used first
    c_stats,         \* self._fusion_stats of each service instance
    c_last,          \* what the last operation on the cache did
    c_ops,           \* the number of operations so far
    r_pc,            \* position in reciprocal_rank_fusion
    dense_results,   \* dense_results.points
    sparse_results,  \* sparse_results.points
    rrf_k,           \* the argument k
    rrf_limit,       \* the argument limit
    rrf_rank,        \* rank of the running loop of reciprocal_rank_fusion
    fused_scores,    \* the dict fused_scores, its values in insertion order
    final_results,   \* the list reciprocal_rank_fusion returns
    p_pc,            \* position of the caller of the part number classifier
    p_query,         \* the query classified
    p_answer,        \* <<what is_part_number did and returned>>
    p_explained      \* <<the dict explain_classification returned>>

\* the variables of one fusion search
serviceVars ==
    << pc, query, count, store_payload, e_calls, v_calls, e_pc, e_field, e_results, e_future,
       v_pc, v_vector, v_results, v_future, exact_results, vector_results,
       all_idx, seen_ids, fused_results, last_result, output,
       fusion_stats, response >>

httpVars ==
    << h_pc, h_request, h_clock, h_response >>

statsVars ==
    << s_pc, s_time, s_read >>

cacheVars ==
    << cache, c_stats, c_last, c_ops >>

rrfVars ==
    << r_pc, dense_results, sparse_results, rrf_k, rrf_limit, rrf_rank,
       fused_scores, final_results >>

classifierVars ==
    << p_pc, p_query, p_answer, p_explained >>

\* the variables a fusion search leaves alone
otherVars ==
    << httpVars, statsVars, cacheVars, rrfVars, classifierVars >>

vars ==
    << serviceVars, otherVars >>

inputVars ==
    << query, count, store_payload >>

exactVars ==
    << e_pc, e_field, e_results, e_future, e_calls >>

vectorVars ==
    << v_pc, v_vector, v_results, v_future, v_calls >>

searchVars ==
    << query, store_payload, exactVars, vectorVars, fusion_stats, response >>

fusionVars ==
    << exact_results, vector_results, all_idx, seen_ids, fused_results, last_result >>

(***************************************************************************)
(* Bounds of the model                                                     *)
(***************************************************************************)
\* most hits in exact_results and vector_results together, when simple_fusion
\* is called on lists of the caller's choice
MaxTotal ==
    3

\* largest small candidateCount tried (a count above the exact cap is tried too)
MaxCount ==
    2

(***************************************************************************)
(* Program constants                                                       *)
(***************************************************************************)
\* normalized_score of the field partNumber_airgas_text (1.0)
ExactScore ==
    100

\* normalized_score of the field manufacturerPartNumber_text (0.9)
MfgScore ==
    90

\* "if point.score >= 0.4"
RelevanceFloor ==
    40

\* "limit=min(count, 10)"
ExactCap ==
    10

None ==
    "None"

\* no HTTP request is being handled
HttpIdle ==
    /\ h_pc = "none"
    /\ h_request = None
    /\ h_clock = 0
    /\ h_response = None

\* no concurrent calls are followed
StatsIdle ==
    /\ s_pc = <<>>
    /\ s_time = <<>>
    /\ s_read = <<>>

\* the cache is not followed
CacheIdle ==
    /\ cache = <<>>
    /\ c_stats = <<>>
    /\ c_last = <<>>
    /\ c_ops = 0

\* reciprocal_rank_fusion is not called
RrfIdle ==
    /\ r_pc = "none"
    /\ dense_results = <<>>
    /\ sparse_results = <<>>
    /\ rrf_k = 0
    /\ rrf_limit = 0
    /\ rrf_rank = 0
    /\ fused_scores = <<>>
    /\ final_results = <<>>

\* the classifier is not called
ClassifierIdle ==
    /\ p_pc = "none"
    /\ p_query = <<>>
    /\ p_answer = <<>>
    /\ p_explained = <<>>

OtherIdle ==
    /\ HttpIdle
    /\ StatsIdle
    /\ CacheIdle
    /\ RrfIdle
    /\ ClassifierIdle

Min(a, b) ==
    IF a <= b THEN a ELSE b

Max(a, b) ==
    IF a >= b THEN a ELSE b

\* the index range of a Python list
Idx(s) ==
    1 .. Len(s)

(***************************************************************************)
(* The latency statistics.  The clock of the model ticks once for every    *)
(* call to a collaborator (store, embedder), so the time a stage measures  *)
(* is the number of calls it made.  An average is kept in tenths of a      *)
(* tick, rounded down.                                                     *)
(***************************************************************************)
\* self._fusion_stats = {...}
InitialStats ==
    [total_fusion_searches |-> 0, avg_exact_time |-> 0, avg_vector_time |-> 0,
     avg_fusion_time |-> 0, avg_total_fusion_time |-> 0]

\* time.time() - start_time
Elapsed(calls_made) ==
    Len(calls_made)

\* avg * 0.9 + time * 0.1
Ema(avg, time) ==
    (avg * 9) \div 10 + time

(***************************************************************************)
(* SearchResult                                                            *)
(***************************************************************************)
SearchResult(id, score, payload, search_type, qdrant_id) ==
    [id |-> id, score |-> score, payload |-> payload,
     search_type |-> search_type, qdrant_id |-> qdrant_id]

(***************************************************************************)
(* simple_fusion                                                           *)
(***************************************************************************)
\* all_results = exact_results + vector_results
AllResults(exact, vector) ==
    exact \o vector

\* "for i, res in enumerate(fused_results): if res.id == result_id" : the
\* first position of the id in the list
FirstIndexOf(fused, id) ==
    CHOOSE i \in Idx(fused) :
        /\ fused[i].id = id
        /\ \A j \in 1 .. (i - 1) : fused[j].id # id

\* a slip: the two types joined the other way round
JoinTypesNewFirst(existing_type, result_type) ==
    result_type \o existing_type

\* a slip: only the first type of the stored hit is kept
JoinTypesFirstOnly(existing_type, result_type) ==
    <<existing_type[1]>> \o result_type

\* f"{existing.search_type}+{result.search_type}"
JoinTypes(existing_type, result_type) ==
    existing_type \o result_type

\* a slip: the comparison turned round, the lower score wins
BetterKeepsLower(result, existing) ==
    result.score < existing.score

\* "if result.score > existing.score"
Better(result, existing) ==
    result.score > existing.score

\* One iteration of "for result in all_results".  seen_ids[id] and the entry
\* of fused_results with that id are the same object: an assignment to
\* existing.search_type shows in both.
FusionStep(seen, fused, result) ==
    IF result.id \notin DOMAIN seen
    THEN [seen |-> (result.id :> result) @@ seen,
          fused |-> Append(fused, result)]
    ELSE LET existing == seen[result.id]
             i == FirstIndexOf(fused, result.id)
         IN  IF Better(result, existing)
             THEN LET replaced ==
                          [result EXCEPT
                              !.search_type =
                                  JoinTypes(existing.search_type, result.search_type)]
                  IN  [seen |-> [seen EXCEPT ![result.id] = replaced],
                       fused |-> [fused EXCEPT ![i] = replaced]]
             ELSE LET noted ==
                          [existing EXCEPT
                              !.search_type =
                                  JoinTypes(existing.search_type, result.search_type)]
                  IN  [seen |-> [seen EXCEPT ![result.id] = noted],
                       fused |-> [fused EXCEPT ![i] = noted]]

\* a slip: reverse=True forgotten, the sort is ascending
InsertPosAscending(sorted, x) ==
    Cardinality({i \in Idx(sorted) : sorted[i].score <= x.score}) + 1

\* a slip: a sort that is not stable, x goes before the elements of its score
InsertPosBeforeTies(sorted, x) ==
    Cardinality({i \in Idx(sorted) : sorted[i].score > x.score}) + 1

\* where list.sort(key=score, reverse=True) puts x in an already sorted list:
\* after every element whose score is >= x.score (the sort is stable)
InsertPos(sorted, x) ==
    Cardinality({i \in Idx(sorted) : sorted[i].score >= x.score}) + 1

InsertSorted(sorted, x) ==
    LET p == InsertPos(sorted, x)
    IN  SubSeq(sorted, 1, p - 1) \o <<x>> \o SubSeq(sorted, p, Len(sorted))

RECURSIVE SortByScoreDesc(_)
\* fused_results.sort(key=lambda x: x.score, reverse=True)
SortByScoreDesc(list) ==
    IF list = <<>>
    THEN <<>>
    ELSE InsertSorted(SortByScoreDesc(SubSeq(list, 1, Len(list) - 1)),
                      list[Len(list)])

\* a slip: the list is returned whole
CutNothing(list, n) ==
    list

\* the Python slice list[:n]
Cut(list, n) ==
    IF n >= 0
    THEN SubSeq(list, 1, Min(n, Len(list)))
    ELSE SubSeq(list, 1, Max(Len(list) + n, 0))
(***************************************************************************)
(* simple_fusion called on lists of the caller's choice                    *)
(***************************************************************************)
FuseIds ==
    {"A", "B"}

FuseScores ==
    {RelevanceFloor, MfgScore, ExactScore}

ExactTypes ==
    {"exact", "exact_mfg"}

Digits ==
    <<"1", "2", "3", "4", "5", "6", "7", "8", "9">>

\* str(n) of a point id
Str(n) ==
    Digits[n]

\* candidateCount values tried: negative, zero, small, and above the exact cap
Counts ==
    (-1 .. MaxCount) \cup {ExactCap + 1}

InputHits(types) ==
    {SearchResult(id, s, id, <<t>>, None) : id \in FuseIds, s \in FuseScores, t \in types}

\* every hit of the two lists is an object of its own: number them
Numbered(list, offset) ==
    [i \in Idx(list) |-> [list[i] EXCEPT !.qdrant_id = Str(offset + i)]]

InitFuse ==
    /\ \E ke \in 0 .. MaxTotal : \E kv \in 0 .. (MaxTotal - ke) :
         \E ex \in [1 .. ke -> InputHits(ExactTypes)] :
           \E ve \in [1 .. kv -> InputHits({"vector"})] :
             /\ exact_results = Numbered(ex, 0)
             /\ vector_results = Numbered(ve, ke)
    /\ pc = "fuse"
    /\ all_idx = 1
    /\ seen_ids = <<>>
    /\ fused_results = <<>>
    /\ last_result = <<>>
    /\ output = <<>>
    /\ count = None
    /\ query = <<>>
    /\ store_payload = <<>>
    /\ e_calls = <<>>
    /\ v_calls = <<>>
    /\ e_pc = "none"
    /\ e_field = 0
    /\ e_results = <<>>
    /\ e_future = "none"
    /\ v_pc = "none"
    /\ v_vector = None
    /\ v_results = <<>>
    /\ v_future = "none"
    /\ fusion_stats = InitialStats
    /\ response = None
    /\ OtherIdle

\* one iteration of the loop of simple_fusion
FuseIter ==
    /\ pc = "fuse"
    /\ all_idx <= Len(AllResults(exact_results, vector_results))
    /\ LET result == AllResults(exact_results, vector_results)[all_idx]
           step == FusionStep(seen_ids, fused_results, result)
       IN  /\ seen_ids' = step.seen
           /\ fused_results' = step.fused
           /\ last_result' = <<result>>
    /\ all_idx' = all_idx + 1
    /\ UNCHANGED << pc, count, output, exact_results, vector_results, searchVars >>
    /\ UNCHANGED otherVars

\* the sort that ends simple_fusion, and its return
FuseSort ==
    /\ pc = "fuse"
    /\ all_idx > Len(AllResults(exact_results, vector_results))
    /\ fused_results' = SortByScoreDesc(fused_results)
    /\ fusion_stats' = [fusion_stats EXCEPT !.avg_fusion_time = Ema(@, 0)]
    /\ pc' = "cut"
    /\ UNCHANGED << count, output, exact_results, vector_results, all_idx, seen_ids,
                    last_result, query, store_payload, exactVars, vectorVars,
                    response >>
    /\ UNCHANGED otherVars

\* the stats update and "return fused_results[:count]" that follow
\* simple_fusion, for a count of the caller's choice
FuseCut ==
    /\ pc = "cut"
    /\ \E c \in Counts :
         /\ count' = c
         /\ output' = Cut(fused_results, c)
    /\ fusion_stats' =
           [fusion_stats EXCEPT
               !.total_fusion_searches = @ + 1,
               !.avg_total_fusion_time = Ema(@, 0)]
    /\ pc' = "done"
    /\ UNCHANGED << fusionVars, query, store_payload, exactVars, vectorVars,
                    response >>
    /\ UNCHANGED otherVars

NextFuse ==
    \/ FuseIter
    \/ FuseSort
    \/ FuseCut

SpecFuse ==
    InitFuse /\ [][NextFuse]_vars

(***************************************************************************)
(* The collaborators: the texts, the vector store, the embedder            *)
(***************************************************************************)
Whitespace ==
    {" "}

RECURSIVE LStrip(_)
LStrip(text) ==
    IF text # <<>> /\ text[1] \in Whitespace THEN LStrip(Tail(text)) ELSE text

RECURSIVE RStrip(_)
RStrip(text) ==
    IF text # <<>> /\ text[Len(text)] \in Whitespace
    THEN RStrip(SubSeq(text, 1, Len(text) - 1))
    ELSE text

\* str.strip()
Strip(text) ==
    RStrip(LStrip(text))

\* a-z
LowerLetters ==
    << "a", "b", "c", "d", "e", "f", "g", "h", "i", "j", "k", "l", "m",
       "n", "o", "p", "q", "r", "s", "t", "u", "v", "w", "x", "y", "z" >>

\* A-Z
UpperLetters ==
    << "A", "B", "C", "D", "E", "F", "G", "H", "I", "J", "K", "L", "M",
       "N", "O", "P", "Q", "R", "S", "T", "U", "V", "W", "X", "Y", "Z" >>

\* the upper case letter of each lower case letter
ToUpper ==
    [c \in {LowerLetters[i] : i \in Idx(LowerLetters)} |->
        UpperLetters[CHOOSE i \in Idx(LowerLetters) : LowerLetters[i] = c]]

UpperOf(c) ==
    IF c \in DOMAIN ToUpper THEN ToUpper[c] ELSE c

\* str.upper()
Upper(text) ==
    [i \in Idx(text) |-> UpperOf(text[i])]

\* clean_query = query.strip().upper()
CleanQuery(text) ==
    Upper(Strip(text))

\* the query texts tried
Queries ==
    { <<" ", "a", "1", " ">>, <<"A", "1">> }

\* the ids of the points of the collection
Points ==
    {1, 2, 3}

\* the payloads tried: 'partNumber_airgas_text' of points 1, 2, 3 (None: the
\* payload has no such key).  Two points may carry the same part number.
Payloads ==
    { <<"A", "B", None>>, <<"A", "A", None>> }

\* the similarity scores the store may give a point
VectorScores ==
    {RelevanceFloor - 1, RelevanceFloor, RelevanceFloor + 1, ExactScore}

\* point.payload.get('partNumber_airgas_text', str(point.id))
PointId(p) ==
    IF store_payload[p] # None THEN store_payload[p] ELSE Str(p)

RECURSIVE Ascending(_)
\* the points of a set in the order of their ids
Ascending(set) ==
    IF set = {}
    THEN <<>>
    ELSE LET least == CHOOSE x \in set : \A y \in set : x <= y
         IN  <<least>> \o Ascending(set \ {least})

Failure ==
    [failed |-> TRUE, points |-> <<>>]

Answer(points) ==
    [failed |-> FALSE, points |-> points]

\* What client.scroll(filter, limit) may answer: an error, or at most `limit`
\* of the points, in the order of their ids.  The client refuses a negative
\* limit.
ScrollAnswers(limit) ==
    {Failure} \cup
    IF limit < 0
    THEN {}
    ELSE {Answer(Ascending(set)) : set \in {x \in SUBSET Points : Cardinality(x) <= limit}}

\* What client.query_points(query, limit) may answer: an error, or at most
\* `limit` points, no point twice, ranked by score descending.  The client
\* refuses a negative limit.
QueryAnswers(limit) ==
    {Failure} \cup
    IF limit < 0
    THEN {}
    ELSE {Answer(ps) :
            ps \in {x \in UNION {[1 .. k -> [id : Points, score : VectorScores]] :
                                    k \in 0 .. Min(limit, Cardinality(Points))} :
                      /\ \A i, j \in Idx(x) : x[i].id = x[j].id => i = j
                      /\ \A i \in Idx(x) : i < Len(x) => x[i].score >= x[i + 1].score}}

\* tuple([0.0] * 384)
ZeroVector ==
    <<"zero">>

\* the vector the embedding model gives a text
Embedding(text) ==
    <<"embedding", text>>

StoreCall(op, key, value, limit, answer) ==
    [op |-> op, key |-> key, value |-> value, limit |-> limit,
     failed |-> answer.failed, points |-> answer.points]

(***************************************************************************)
(* _get_embedding_cached                                                   *)
(***************************************************************************)
\* the try / except of _get_embedding_cached: the embedding, or the fallback
EmbeddingOrFallback(text, failed) ==
    IF failed THEN ZeroVector ELSE Embedding(text)

(***************************************************************************)
(* _exact_search_sync                                                      *)
(***************************************************************************)
search_fields ==
    << [field_name |-> "partNumber_airgas_text",
        normalized_score |-> ExactScore, search_type |-> "exact"],
       [field_name |-> "manufacturerPartNumber_text",
        normalized_score |-> MfgScore, search_type |-> "exact_mfg"] >>

\* a slip: the cap of the lookups forgotten
ExactLimitUncapped(n) ==
    n

\* limit=min(count, 10)
ExactLimit(n) ==
    Min(n, ExactCap)

\* "for point in qdrant_results[0]: results.append(SearchResult(...))"
ExactHits(field, points) ==
    [i \in Idx(points) |->
        SearchResult(PointId(points[i]), field.normalized_score,
                     store_payload[points[i]], <<field.search_type>>, Str(points[i]))]

\* a slip: the loop never leaves early
ExactNeverBreaks(results, field) ==
    FALSE

\* "if results and search_type == "exact": break"
ExactBreaks(results, field) ==
    results # <<>> /\ field.search_type = "exact"

\* a slip: the error of one field ends the loop, as the outer handler would
FieldErrorEndsLoop(i) ==
    Len(search_fields) + 1

\* "except Exception as field_error: continue": the loop goes on with the
\* next field
AfterFieldError(i) ==
    i + 1

\* the field the loop handles after an answer: none (past the last) on break
AfterFieldAnswer(results, i) ==
    IF ExactBreaks(results, search_fields[i]) THEN Len(search_fields) + 1 ELSE i + 1

(***************************************************************************)
(* _vector_search_sync                                                     *)
(***************************************************************************)
\* a slip: a hit at the floor itself is dropped
AboveFloor(score) ==
    score > RelevanceFloor

\* "if point.score >= 0.4"
Relevant(score) ==
    score >= RelevanceFloor

RECURSIVE KeepRelevant(_)
\* "for point in qdrant_results.points: if point.score >= 0.4: results.append"
KeepRelevant(points) ==
    IF points = <<>>
    THEN <<>>
    ELSE LET point == points[1]
             rest == KeepRelevant(Tail(points))
         IN  IF Relevant(point.score)
             THEN <<SearchResult(PointId(point.id), point.score,
                                 store_payload[point.id], <<"vector">>,
                                 Str(point.id))>> \o rest
             ELSE rest

\* a slip: no handler, the error of the store leaves the function
VectorErrorRaised ==
    [raised |-> TRUE, results |-> <<>>]

\* "except Exception as e: logger.error(...)": the function goes on and
\* returns its results, which are still empty
VectorOnError ==
    [raised |-> FALSE, results |-> <<>>]

(***************************************************************************)
(* search_fusion and _parallel_fusion_search_sync                          *)
(***************************************************************************)
\* the dict search_fusion makes of a SearchResult
Formatted(r) ==
    [id |-> r.id, score |-> r.score, payload |-> r.payload,
     qdrant_id |-> r.qdrant_id, search_type |-> r.search_type]

FormattedResults(list) ==
    [i \in Idx(list) |-> Formatted(list[i])]

RECURSIVE FuseLoop(_, _)
\* the state of the loop of simple_fusion after its first k iterations
FuseLoop(all, k) ==
    IF k = 0
    THEN [seen |-> <<>>, fused |-> <<>>]
    ELSE LET before == FuseLoop(all, k - 1)
         IN  FusionStep(before.seen, before.fused, all[k])

\* simple_fusion(exact_results, vector_results)
SimpleFusion(exact, vector) ==
    LET all == AllResults(exact, vector)
    IN  SortByScoreDesc(FuseLoop(all, Len(all)).fused)

Init ==
    /\ query \in Queries
    /\ count \in Counts
    /\ store_payload \in Payloads
    /\ pc = "start"
    /\ e_calls = <<>>
    /\ v_calls = <<>>
    /\ e_pc = "none"
    /\ e_field = 0
    /\ e_results = <<>>
    /\ e_future = "none"
    /\ v_pc = "none"
    /\ v_vector = None
    /\ v_results = <<>>
    /\ v_future = "none"
    /\ exact_results = <<>>
    /\ vector_results = <<>>
    /\ all_idx = 1
    /\ seen_ids = <<>>
    /\ fused_results = <<>>
    /\ last_result = <<>>
    /\ output = <<>>
    /\ fusion_stats = InitialStats
    /\ response = None
    /\ OtherIdle

\* exact_future = executor.submit(self._exact_search_sync, query, count):
\* a worker thread starts the function
SubmitExact ==
    /\ pc = "start"
    /\ pc' = "submit_vector"
    /\ e_pc' = "lookup"
    /\ e_field' = 1
    /\ e_results' = <<>>
    /\ e_future' = "pending"
    /\ UNCHANGED << inputVars, e_calls, vectorVars, fusionVars, output,
                    fusion_stats, response >>
    /\ UNCHANGED otherVars

\* vector_future = executor.submit(self._vector_search_sync, query, count * 2)
SubmitVector ==
    /\ pc = "submit_vector"
    /\ pc' = "join_exact"
    /\ v_pc' = "embed"
    /\ v_results' = <<>>
    /\ v_future' = "pending"
    /\ UNCHANGED << inputVars, exactVars, v_vector, v_calls, fusionVars, output,
                    fusion_stats, response >>
    /\ UNCHANGED otherVars

\* one turn of "for field_name, normalized_score, search_type in search_fields"
ExactLookup ==
    /\ e_pc = "lookup"
    /\ LET field == search_fields[e_field]
           limit == ExactLimit(count)
       IN  \E answer \in ScrollAnswers(limit) :
             LET results == IF answer.failed
                            THEN e_results
                            ELSE e_results \o ExactHits(field, answer.points)
                 next == IF answer.failed
                         THEN AfterFieldError(e_field)
                         ELSE AfterFieldAnswer(results, e_field)
             IN  /\ e_calls' = Append(e_calls,
                                      StoreCall("scroll", field.field_name,
                                                CleanQuery(query), limit, answer))
                 /\ e_results' = results
                 /\ e_field' = next
                 /\ e_pc' = IF next > Len(search_fields) THEN "stats" ELSE "lookup"
    /\ UNCHANGED << pc, inputVars, e_future, vectorVars, fusionVars, output,
                    fusion_stats, response >>
    /\ UNCHANGED otherVars

\* the end of _exact_search_sync: "return results"
ExactReturn ==
    /\ e_pc = "stats"
    /\ fusion_stats' =
           [fusion_stats EXCEPT !.avg_exact_time = Ema(@, Elapsed(e_calls))]
    /\ e_pc' = "done"
    /\ e_future' = "returned"
    /\ UNCHANGED << pc, inputVars, e_field, e_results, e_calls, vectorVars,
                    fusionVars, output, response >>
    /\ UNCHANGED otherVars

\* query_vector = list(self._get_embedding_cached(query)), the cache empty
VectorEmbed ==
    /\ v_pc = "embed"
    /\ \E failed \in BOOLEAN :
         /\ v_vector' = EmbeddingOrFallback(query, failed)
         /\ v_calls' = Append(v_calls,
                              StoreCall("embed", None, query, None,
                                        [failed |-> failed, points |-> <<>>]))
    /\ v_pc' = "query"
    /\ UNCHANGED << pc, inputVars, exactVars, v_results, v_future, fusionVars,
                    output, fusion_stats, response >>
    /\ UNCHANGED otherVars

\* client.query_points(...) and the loop over its points
VectorQuery ==
    /\ v_pc = "query"
    /\ LET limit == count * 2
       IN  \E answer \in QueryAnswers(limit) :
             LET outcome == IF answer.failed
                            THEN VectorOnError
                            ELSE [raised |-> FALSE,
                                  results |-> KeepRelevant(answer.points)]
             IN  /\ v_calls' = Append(v_calls,
                                      StoreCall("query_points", "dense", v_vector,
                                                limit, answer))
                 /\ v_results' = outcome.results
                 /\ v_pc' = IF outcome.raised THEN "done" ELSE "stats"
                 /\ v_future' = IF outcome.raised THEN "raised" ELSE v_future
    /\ UNCHANGED << pc, inputVars, exactVars, v_vector, fusionVars, output,
                    fusion_stats, response >>
    /\ UNCHANGED otherVars

\* the end of _vector_search_sync: "return results"
VectorReturn ==
    /\ v_pc = "stats"
    /\ fusion_stats' =
           [fusion_stats EXCEPT !.avg_vector_time = Ema(@, Elapsed(v_calls))]
    /\ v_pc' = "done"
    /\ v_future' = "returned"
    /\ UNCHANGED << pc, inputVars, exactVars, v_vector, v_results, v_calls,
                    fusionVars, output, response >>
    /\ UNCHANGED otherVars

\* a slip: the result is taken without waiting for the worker
ResultWithoutWaiting(future) ==
    TRUE

\* future.result() blocks until the worker has returned or raised
FutureDone(future) ==
    future \in {"returned", "raised"}

\* exact_results = exact_future.result(): waits for the exact worker
JoinExact ==
    /\ pc = "join_exact"
    /\ FutureDone(e_future)
    /\ pc' = "join_vector"
    /\ exact_results' = IF e_future = "returned" THEN e_results ELSE <<>>
    /\ UNCHANGED << inputVars, exactVars, vectorVars, vector_results, all_idx,
                    seen_ids, fused_results, last_result, output,
                    fusion_stats, response >>
    /\ UNCHANGED otherVars

\* vector_results = vector_future.result() and the end of the "with" block,
\* which waits for both workers.  An exception of a worker is raised again by
\* result(), and search_fusion turns it into a DatabaseError.
JoinVector ==
    /\ pc = "join_vector"
    /\ FutureDone(v_future)
    /\ IF e_future = "raised" \/ v_future = "raised"
       THEN /\ pc' = "done"
            /\ response' = [kind |-> "DatabaseError", results |-> <<>>]
            /\ UNCHANGED vector_results
       ELSE /\ pc' = "fusion"
            /\ vector_results' = v_results
            /\ UNCHANGED response
    /\ UNCHANGED << inputVars, exactVars, vectorVars, exact_results, all_idx,
                    seen_ids, fused_results, last_result, output, fusion_stats >>
    /\ UNCHANGED otherVars

\* The rest of _parallel_fusion_search_sync: simple_fusion, the stats update
\* and "return fused_results[:count]"; then the formatting and the return of
\* search_fusion.
FuseAndReturn ==
    /\ pc = "fusion"
    /\ fused_results' = SimpleFusion(exact_results, vector_results)
    /\ fusion_stats' =
           [fusion_stats EXCEPT
               !.avg_fusion_time = Ema(@, 0),
               !.total_fusion_searches = @ + 1,
               !.avg_total_fusion_time = Ema(@, Elapsed(e_calls \o v_calls))]
    /\ output' = Cut(fused_results', count)
    /\ response' = [kind |-> "ok", results |-> FormattedResults(output')]
    /\ pc' = "done"
    /\ UNCHANGED << inputVars, exactVars, vectorVars, exact_results,
                    vector_results, all_idx, seen_ids, last_result >>
    /\ UNCHANGED otherVars

Next ==
    \/ SubmitExact
    \/ SubmitVector
    \/ ExactLookup
    \/ ExactReturn
    \/ VectorEmbed
    \/ VectorQuery
    \/ VectorReturn
    \/ JoinExact
    \/ JoinVector
    \/ FuseAndReturn

Spec ==
    Init /\ [][Next]_vars

(***************************************************************************)
(* Properties of simple_fusion and of the cut (SpecFuse)                   *)
(***************************************************************************)
IdsOf(list) ==
    {list[i].id : i \in Idx(list)}

NoDuplicateIds(list) ==
    \A i, j \in Idx(list) : list[i].id = list[j].id => i = j

\* the first position of an id in exact_results + vector_results
FirstSeen(id) ==
    LET all == exact_results \o vector_results
    IN  CHOOSE i \in Idx(all) :
            /\ all[i].id = id
            /\ \A j \in Idx(all) : all[j].id = id => i <= j

\* the hits of exact_results + vector_results that carry the id
InputsWithId(id) ==
    LET all == exact_results \o vector_results
    IN  {all[i] : i \in {j \in Idx(all) : all[j].id = id}}

\* C1: for every pair of input lists and every requested candidateCount, the
\* list that fusion search returns (simple_fusion, then the [:count] cut) holds
\* no id twice, and its length is at most len(exact) + len(vector) and at most
\* candidateCount.
C1_FusionOutputBounded ==
    pc = "done" =>
        /\ NoDuplicateIds(output)
        /\ Len(output) <= Len(exact_results) + Len(vector_results)
        /\ Len(output) <= count

\* The same bound for the candidateCounts that are not negative.
FusionOutputBoundedFromZero ==
    (pc = "done" /\ count >= 0) =>
        /\ NoDuplicateIds(output)
        /\ Len(output) <= Len(exact_results) + Len(vector_results)
        /\ Len(output) <= count

\* C2: an id that is in both the exact list and the vector list has exactly one
\* hit in the list simple_fusion returns, and the score of that hit is the
\* greatest score the id has in the two lists: max(exactScore, vectorScore).
C2_FusedScoreIsMax ==
    pc \in {"cut", "done"} =>
        \A id \in IdsOf(exact_results) \cap IdsOf(vector_results) :
            /\ Cardinality({i \in Idx(fused_results) : fused_results[i].id = id}) = 1
            /\ \A i \in Idx(fused_results) :
                 fused_results[i].id = id =>
                     /\ \E h \in InputsWithId(id) : h.score = fused_results[i].score
                     /\ \A h \in InputsWithId(id) : h.score <= fused_results[i].score

\* simple_fusion has returned for an id that the vector list scores higher
\* than the exact list does
C2_Witness ==
    /\ pc = "cut"
    /\ \E i \in Idx(exact_results) : \E j \in Idx(vector_results) :
         /\ exact_results[i].id = vector_results[j].id
         /\ exact_results[i].score < vector_results[j].score

\* C3: the list simple_fusion returns is ordered by score descending: each hit
\* scores at least as much as the hit after it.
C3_SortedDescending ==
    pc \in {"cut", "done"} =>
        \A i \in Idx(fused_results) :
            i < Len(fused_results) =>
                fused_results[i].score >= fused_results[i + 1].score

\* simple_fusion has returned two hits of different score whose ids were met
\* in ascending order of score
C3_Witness ==
    /\ pc = "cut"
    /\ Len(fused_results) >= 2
    /\ fused_results[1].score > fused_results[2].score
    /\ FirstSeen(fused_results[2].id) < FirstSeen(fused_results[1].id)

\* C4: hits of equal score keep the order in which their ids were first met in
\* exact ++ vector (also when a hit was replaced in place by a duplicate of
\* higher score), so an id first seen in the exact list precedes an id of equal
\* score seen only in the vector list.
C4_TiesKeepFirstSeenOrder ==
    pc \in {"cut", "done"} =>
        \A i, j \in Idx(fused_results) :
            (i < j /\ fused_results[i].score = fused_results[j].score) =>
                FirstSeen(fused_results[i].id) < FirstSeen(fused_results[j].id)

\* simple_fusion has returned a tie between an id of the exact list, whose hit
\* was replaced in place by a later vector hit, and an id seen only in the
\* vector list, whose hit comes before the replacing one in the vector list
C4_Witness ==
    /\ pc = "cut"
    /\ \E i, j \in Idx(fused_results) : \E a, b \in Idx(vector_results) :
         /\ i < j
         /\ fused_results[i].score = fused_results[j].score
         /\ fused_results[i].id \in IdsOf(exact_results)
         /\ fused_results[j].id \notin IdsOf(exact_results)
         /\ fused_results[i].qdrant_id = vector_results[a].qdrant_id
         /\ fused_results[j].qdrant_id = vector_results[b].qdrant_id
         /\ b < a

\* what one iteration must do to the stored hit `old` at position i when it
\* meets the hit r of the same id
MergedHit(old, r) ==
    IF r.score > old.score
    THEN [id |-> r.id, score |-> r.score, payload |-> r.payload,
          qdrant_id |-> r.qdrant_id, search_type |-> old.search_type \o r.search_type]
    ELSE [id |-> old.id, score |-> old.score, payload |-> old.payload,
          qdrant_id |-> old.qdrant_id, search_type |-> old.search_type \o r.search_type]

\* C5: when the loop of simple_fusion meets a hit whose id is already stored:
\* if the new hit scores strictly more, the new hit takes the place of the
\* stored one, in the map and at the same position of the output list, with
\* searchType "{oldType}+{newType}"; otherwise the stored hit keeps its score
\* and payload and only its searchType becomes "{storedType}+{newType}".
\* Nothing else in the map or the list changes.
C5_DuplicateHandling ==
    [][(pc = "fuse" /\ all_idx' = all_idx + 1) =>
        LET r == (exact_results \o vector_results)[all_idx]
        IN  r.id \in DOMAIN seen_ids =>
                LET old == seen_ids[r.id]
                IN  /\ DOMAIN seen_ids' = DOMAIN seen_ids
                    /\ Len(fused_results') = Len(fused_results)
                    /\ seen_ids'[r.id] = MergedHit(old, r)
                    /\ \A id \in DOMAIN seen_ids :
                         id # r.id => seen_ids'[id] = seen_ids[id]
                    /\ \A i \in Idx(fused_results) :
                         fused_results'[i] =
                             IF fused_results[i].id = r.id
                             THEN MergedHit(old, r)
                             ELSE fused_results[i]]_vars

\* the loop has just met a third hit of an id: the stored hit, which had
\* replaced the first hit of the id, is kept and the duplicate is noted on it
C5_Witness ==
    /\ pc = "fuse"
    /\ last_result # <<>>
    /\ \E i \in Idx(fused_results) :
         /\ fused_results[i].id = last_result[1].id
         /\ fused_results[i].qdrant_id # last_result[1].qdrant_id
         /\ fused_results[i].qdrant_id #
                (exact_results \o vector_results)[FirstSeen(last_result[1].id)].qdrant_id
         /\ Len(fused_results[i].search_type) = 3

(***************************************************************************)
(* Properties of the fusion search (Spec)                                  *)
(***************************************************************************)
PrimaryField ==
    "partNumber_airgas_text"

SecondaryField ==
    "manufacturerPartNumber_text"

\* the lookups the exact worker issued on a field
LookupsOn(field_name) ==
    {i \in Idx(e_calls) : e_calls[i].key = field_name}

\* a lookup that yielded at least one hit
Yielded(call) ==
    ~call.failed /\ call.points # <<>>

\* the answer of the store to the vector query, once it was issued
QueryCalls ==
    {i \in Idx(v_calls) : v_calls[i].op = "query_points"}

VectorQueryFailed ==
    \E i \in QueryCalls : v_calls[i].failed

ExactAllFailed ==
    /\ e_calls # <<>>
    /\ \A i \in Idx(e_calls) : e_calls[i].failed

\* the entries of a list whose id is not `id`, in the order of the list
RECURSIVE Without(_, _)
Without(list, id) ==
    IF list = <<>>
    THEN <<>>
    ELSE IF list[1].id = id
         THEN Without(Tail(list), id)
         ELSE <<list[1]>> \o Without(Tail(list), id)

\* the case of the first scenario: the exact searcher returned one hit of the
\* primary field, and the vector searcher the same id with a lower score
\* together with other ids
OneExactAndVector ==
    /\ Len(e_results) = 1
    /\ e_results[1].search_type = <<"exact">>
    /\ e_results[1].score = ExactScore
    /\ \E i \in Idx(v_results) :
         /\ v_results[i].id = e_results[1].id
         /\ v_results[i].score < e_results[1].score
    /\ \E i \in Idx(v_results) : v_results[i].id # e_results[1].id

\* what the first scenario promises: the id of the exact hit first, with score
\* 1.0 and type "exact+vector", then the vector-only hits as they are
ExactThenVectorOnly ==
    << [Formatted(e_results[1]) EXCEPT !.search_type = <<"exact", "vector">>] >>
        \o FormattedResults(Without(v_results, e_results[1].id))

\* C6 as stated: with one primary-field exact hit for an id that the vector
\* searcher returns with a lower score among other ids, fusion search returns
\* that id first (score 1.0, "exact+vector") followed by the vector-only hits,
\* each with its vector score and type "vector"; with no exact hit, the output
\* is exactly the vector hits, sorted descending, each tagged "vector".
C6_EndToEndAsStated ==
    (pc = "done" /\ response.kind = "ok") =>
        /\ OneExactAndVector => response.results = ExactThenVectorOnly
        /\ e_results = <<>> => response.results = FormattedResults(v_results)

\* C6 as amended: the same, for vector hits of pairwise distinct ids, and the
\* output is that list cut to its first candidateCount hits.
C6_EndToEndCut ==
    (pc = "done" /\ response.kind = "ok" /\ NoDuplicateIds(v_results)) =>
        /\ OneExactAndVector =>
               /\ count >= 1
               /\ response.results =
                      SubSeq(ExactThenVectorOnly, 1,
                             Min(count, Len(ExactThenVectorOnly)))
               /\ response.results[1].score = ExactScore
               /\ response.results[1].search_type = <<"exact", "vector">>
               /\ \A i \in 2 .. Len(response.results) :
                      response.results[i].search_type = <<"vector">>
        /\ e_results = <<>> =>
               /\ response.results =
                      IF count >= 0
                      THEN SubSeq(FormattedResults(v_results), 1,
                                  Min(count, Len(v_results)))
                      ELSE <<>>
               /\ \A i \in Idx(response.results) :
                      /\ response.results[i].search_type = <<"vector">>
                      /\ i < Len(response.results) =>
                             response.results[i].score >= response.results[i + 1].score

\* fusion search has returned the exact id first, followed by two vector-only
\* ids
C6_Witness ==
    /\ pc = "done"
    /\ response.kind = "ok"
    /\ NoDuplicateIds(v_results)
    /\ OneExactAndVector
    /\ Len(response.results) = 3
    /\ response.results[1].search_type = <<"exact", "vector">>

\* fusion search has returned three vector hits, the exact searcher none
C6_WitnessVectorOnly ==
    /\ pc = "done"
    /\ response.kind = "ok"
    /\ e_results = <<>>
    /\ Len(v_results) = 3
    /\ Len(response.results) = 3

\* C7: in a run of the exact searcher in which the lookup on the primary field
\* yields a hit, no lookup is issued on the secondary field; a lookup on the
\* secondary field is issued only after a lookup on the primary field that
\* yielded no hit.
C7_ShortCircuit ==
    /\ (\E i \in LookupsOn(PrimaryField) : Yielded(e_calls[i]))
           => LookupsOn(SecondaryField) = {}
    /\ \A j \in LookupsOn(SecondaryField) :
           \E i \in LookupsOn(PrimaryField) : i < j /\ ~Yielded(e_calls[i])
    /\ Cardinality(LookupsOn(PrimaryField)) <= 1
    /\ Cardinality(LookupsOn(SecondaryField)) <= 1

\* the exact searcher has returned after a primary lookup that yielded hits
C7_Witness ==
    /\ e_pc = "done"
    /\ Len(e_calls) = 1
    /\ e_calls[1].key = PrimaryField
    /\ Yielded(e_calls[1])
    /\ Len(e_results) >= 1

\* the hits the exact searcher makes of the points of a lookup on the
\* secondary field
SecondaryHits(points) ==
    [i \in Idx(points) |->
        [id |-> IF store_payload[points[i]] = None
                THEN Str(points[i])
                ELSE store_payload[points[i]],
         score |-> MfgScore,
         payload |-> store_payload[points[i]],
         search_type |-> <<"exact_mfg">>,
         qdrant_id |-> Str(points[i])]]

\* C8: a store failure on the lookup of one field counts as zero hits for that
\* field only: after a failed primary lookup the secondary lookup is still
\* issued and its hits are returned; the searcher returns an empty list, and
\* never raises, when no field yields a hit.
C8_FieldFailureIsolated ==
    e_pc = "done" =>
        /\ e_future = "returned"
        /\ (e_calls[1].key = PrimaryField /\ e_calls[1].failed) =>
               /\ Len(e_calls) = 2
               /\ e_calls[2].key = SecondaryField
               /\ e_results = IF e_calls[2].failed
                              THEN <<>>
                              ELSE SecondaryHits(e_calls[2].points)
        /\ (\A i \in Idx(e_calls) : ~Yielded(e_calls[i])) => e_results = <<>>

\* the exact searcher has returned the hits of the secondary field after the
\* lookup on the primary field failed
C8_Witness ==
    /\ e_pc = "done"
    /\ Len(e_calls) = 2
    /\ e_calls[1].failed
    /\ Yielded(e_calls[2])
    /\ Len(e_results) = Len(e_calls[2].points)

\* the store points of a list that reach the floor, in the order of the list
PointsKept(points) ==
    SelectSeq(points, LAMBDA pt : pt.score >= RelevanceFloor)

\* C9: every hit the vector searcher returns scores >= 0.4, every hit the store
\* returned with a score >= 0.4 is returned (0.39 is left out, 0.40 and 0.41 are
\* kept), and the hits kept are in the order the store gave them.
C9_RelevanceFloor ==
    (v_pc \in {"stats", "done"}) =>
        \A c \in QueryCalls :
            ~v_calls[c].failed =>
                LET kept == PointsKept(v_calls[c].points)
                IN  /\ Len(v_results) = Len(kept)
                    /\ \A i \in Idx(v_results) :
                         /\ v_results[i].score >= RelevanceFloor
                         /\ v_results[i].score = kept[i].score
                         /\ v_results[i].qdrant_id = Str(kept[i].id)
                         /\ v_results[i].search_type = <<"vector">>

\* the vector searcher has returned two of three store hits: those of score
\* 0.41 and 0.40, not the one of score 0.39
C9_Witness ==
    /\ v_pc = "done"
    /\ \E c \in QueryCalls :
         /\ ~v_calls[c].failed
         /\ Len(v_calls[c].points) = 3
         /\ v_calls[c].points[1].score = RelevanceFloor + 1
         /\ v_calls[c].points[2].score = RelevanceFloor
         /\ v_calls[c].points[3].score = RelevanceFloor - 1
    /\ Len(v_results) = 2

\* C10: a store failure in the vector query makes the vector searcher return
\* an empty list and not raise; fusion search still returns normally: with only
\* one sub-search failing, the fusion of the hits of the other, and with both
\* failing an empty list, as a result and not as an error.
C10_VectorFailureDegrades ==
    /\ (VectorQueryFailed /\ v_pc \in {"stats", "done"}) =>
           /\ v_results = <<>>
           /\ v_future # "raised"
    /\ pc = "done" =>
           /\ response.kind = "ok"
           /\ VectorQueryFailed =>
                  response.results =
                      FormattedResults(Cut(SimpleFusion(e_results, <<>>), count))
           /\ ExactAllFailed =>
                  response.results =
                      FormattedResults(Cut(SimpleFusion(<<>>, v_results), count))
           /\ (VectorQueryFailed /\ ExactAllFailed) => response.results = <<>>

\* fusion search has returned the exact hits although the vector query failed
C10_Witness ==
    /\ pc = "done"
    /\ VectorQueryFailed
    /\ e_results # <<>>
    /\ response.kind = "ok"
    /\ Len(response.results) >= 1

\* fusion search has returned an empty list after every store call failed
C10_WitnessBothFailed ==
    /\ pc = "done"
    /\ VectorQueryFailed
    /\ ExactAllFailed
    /\ response = [kind |-> "ok", results |-> <<>>]

(***************************************************************************)
(* Errors the specification has surfaced to the caller of fusion search    *)
(***************************************************************************)
\* the embedder was called and failed
EmbedderFailed ==
    \E i \in Idx(v_calls) : v_calls[i].op = "embed" /\ v_calls[i].failed

\* C11: when the embedder call fails during an embedding-cache lookup, an
\* EmbeddingError propagates to the caller of the vector searcher and of fusion
\* search: the vector searcher raises, no vector query is issued with a
\* substitute vector, and fusion search ends with an EmbeddingError.
C11_EmbeddingErrorPropagates ==
    EmbedderFailed =>
        /\ QueryCalls = {}
        /\ v_pc = "done" => v_future = "raised"
        /\ pc = "done" => response.kind = "EmbeddingError"

\* C13: a fusion search called with a negative candidateCount is rejected with
\* a validation error before any call to the vector store or to the embedder
\* is issued.
C13_NegativeCountRejected ==
    count < 0 =>
        /\ e_calls = <<>>
        /\ v_calls = <<>>
        /\ pc = "done" => response.kind = "ValidationError"

(***************************************************************************)
(* The join and the sizes asked of the sub-searches (Spec)                 *)
(***************************************************************************)
\* C15: within one fusion-search call, simple_fusion never starts before both
\* the exact sub-search and the vector sub-search have finished and returned
\* their complete lists; the orchestrator never returns on the first
\* completion: what it returns is the fusion of both complete lists.
C15_JoinBeforeFusion ==
    /\ pc \in {"fusion", "done"} =>
           /\ e_pc = "done"
           /\ v_pc = "done"
           /\ e_future # "pending"
           /\ v_future # "pending"
    /\ pc = "fusion" =>
           /\ exact_results = e_results
           /\ vector_results = v_results
    /\ (pc = "done" /\ response.kind = "ok") =>
           /\ exact_results = e_results
           /\ vector_results = v_results
           /\ response.results =
                  FormattedResults(Cut(SimpleFusion(e_results, v_results), count))

\* simple_fusion is about to start on the hits of both sub-searches, the
\* exact one having needed both its lookups
C15_Witness ==
    /\ pc = "fusion"
    /\ Len(e_calls) = 2
    /\ exact_results # <<>>
    /\ vector_results # <<>>

\* the orchestrator still waits for the exact sub-search although the vector
\* sub-search has completed
WaitsAfterFirstCompletion ==
    /\ pc = "join_exact"
    /\ v_future = "returned"
    /\ e_future = "pending"

\* a text that str.strip().upper() leaves as it is
TrimmedUpper(text) ==
    /\ text # <<>> => (text[1] \notin Whitespace /\ text[Len(text)] \notin Whitespace)
    /\ \A i \in Idx(text) : text[i] \notin {"a", "b"}

\* C16: for a fusion search with candidateCount = c, the vector sub-search is
\* asked for exactly 2*c candidates and the exact sub-search for c: the vector
\* query carries the limit 2*c, and every exact-match lookup sent to the store
\* carries the limit min(c, 10) and the trimmed, upper-cased query text.
C16_LimitsAsked ==
    /\ \A i \in Idx(e_calls) :
         /\ e_calls[i].op = "scroll"
         /\ e_calls[i].limit = (IF count <= 10 THEN count ELSE 10)
         /\ e_calls[i].value = Upper(Strip(query))
         /\ TrimmedUpper(e_calls[i].value)
    /\ \A i \in QueryCalls : v_calls[i].limit = 2 * count

\* both sub-searches have called the store for a candidateCount above the cap
\* and a query text that had to be trimmed and upper-cased
C16_Witness ==
    /\ count > ExactCap
    /\ query # CleanQuery(query)
    /\ Len(e_calls) = 2
    /\ e_calls[2].limit = ExactCap
    /\ \E i \in QueryCalls : v_calls[i].limit = 2 * count /\ ~v_calls[i].failed

(***************************************************************************)
(* optimized_search, the handler of GET /search                            *)
(* (app/api/endpoints/search.py).  The handler hands the search to the     *)
(* thread pool and awaits it; h_clock counts the seconds that pass while   *)
(* it waits.                                                               *)
(***************************************************************************)
\* "timeout = 30.0"
Timeout ==
    30

\* count: int = Query(10, ge=1, le=100)
CountMin ==
    1

CountMax ==
    100

\* the longest a search is followed, in seconds
MaxSeconds ==
    32

\* the values of the query parameter count tried
HttpCounts ==
    {CountMin - 1, CountMin, CountMax, CountMax + 1}

HttpRequests ==
    [q : Queries, count : HttpCounts, use_fusion : BOOLEAN]

\* the rows search_with_details makes of the hits of a search
DetailRows ==
    { <<>>,
      << [id |-> "A", score |-> ExactScore, search_type |-> <<"exact">>] >> }

\* how the call of search_with_details may end: it returns its rows, or it
\* raises the DatabaseError it makes of every exception
SearchOutcomes(request) ==
    {[kind |-> "ok", results |-> r] :
        r \in IF request.use_fusion
              THEN DetailRows
              ELSE {[i \in Idx(rows) |-> [rows[i] EXCEPT !.search_type = <<"vector">>]] :
                        rows \in DetailRows}}
        \cup {[kind |-> "DatabaseError", results |-> <<>>]}

HttpResponse(status, request, results) ==
    [status |-> status, query |-> request.q, count |-> Len(results),
     results |-> results]

\* What the handler answers when the awaited call has ended.  A DatabaseError
\* has no attribute status_code: the handler written for it fails in reading
\* e.status_code, and the framework answers 500.
HttpAnswer(request, outcome) ==
    IF outcome.kind = "ok"
    THEN HttpResponse(200, request, outcome.results)
    ELSE HttpResponse(500, request, <<>>)

\* the state of the variables of a fusion search when none is modelled
ServiceIdle ==
    /\ pc = "none"
    /\ query = <<>>
    /\ count = None
    /\ store_payload = <<>>
    /\ e_calls = <<>>
    /\ v_calls = <<>>
    /\ e_pc = "none"
    /\ e_field = 0
    /\ e_results = <<>>
    /\ e_future = "none"
    /\ v_pc = "none"
    /\ v_vector = None
    /\ v_results = <<>>
    /\ v_future = "none"
    /\ exact_results = <<>>
    /\ vector_results = <<>>
    /\ all_idx = 1
    /\ seen_ids = <<>>
    /\ fused_results = <<>>
    /\ last_result = <<>>
    /\ output = <<>>
    /\ fusion_stats = InitialStats
    /\ response = None

\* the variables of one fusion search, the shared stats apart
callVars ==
    << pc, query, count, store_payload, exactVars, vectorVars, fusionVars,
       output, response >>

InitHttp ==
    /\ ServiceIdle
    /\ StatsIdle
    /\ CacheIdle
    /\ RrfIdle
    /\ ClassifierIdle
    /\ h_pc = "validate"
    /\ h_request \in HttpRequests
    /\ h_clock = 0
    /\ h_response = None

\* the framework checks the query parameters before it calls the handler
HttpValidate ==
    /\ h_pc = "validate"
    /\ IF h_request.count >= CountMin /\ h_request.count <= CountMax
       THEN /\ h_pc' = "awaiting"
            /\ UNCHANGED h_response
       ELSE /\ h_pc' = "done"
            /\ h_response' = HttpResponse(422, h_request, <<>>)
    /\ UNCHANGED << h_request, h_clock, serviceVars, statsVars, cacheVars, rrfVars, classifierVars >>

\* "results = await loop.run_in_executor(None, search_func)": a second passes
\* and the call has not ended.  Nothing in the handler looks at the time.
HttpWait ==
    /\ h_pc = "awaiting"
    /\ h_clock < MaxSeconds
    /\ h_clock' = h_clock + 1
    /\ UNCHANGED << h_pc, h_request, h_response, serviceVars, statsVars, cacheVars, rrfVars, classifierVars >>

\* the awaited call ends and the handler answers
HttpReturn ==
    /\ h_pc = "awaiting"
    /\ \E outcome \in SearchOutcomes(h_request) :
         h_response' = HttpAnswer(h_request, outcome)
    /\ h_pc' = "done"
    /\ UNCHANGED << h_request, h_clock, serviceVars, statsVars, cacheVars, rrfVars, classifierVars >>

NextHttp ==
    \/ HttpValidate
    \/ HttpWait
    \/ HttpReturn

SpecHttp ==
    InitHttp /\ [][NextHttp]_vars

\* C12: when the overall deadline of a search call (30 s at the HTTP layer) is
\* exceeded, the caller receives a timeout error (504) that is distinct from a
\* successful zero-result response; a search that has not completed by the
\* deadline never yields an empty-list success.
C12_DeadlineSurfaced ==
    (h_pc = "done" /\ h_clock > Timeout) =>
        /\ h_response.status = 504
        /\ ~(h_response.status = 200 /\ h_response.results = <<>>)

\* no request is answered with a timeout error, however long the search took
NeverTimeoutError ==
    h_pc = "done" => h_response.status # 504

(***************************************************************************)
(* Concurrent fusion searches on one service: the updates of the shared    *)
(* self._fusion_stats.  The calls run in threads of the server's pool; no  *)
(* lock guards the dict, and each update reads an entry and writes it back *)
(* in separate steps of the interpreter.                                   *)
(***************************************************************************)
\* the number of concurrent calls followed
MaxCalls ==
    2

Calls ==
    1 .. MaxCalls

\* the times a call may measure, in ticks
CallTimes ==
    {1, 2}

InitStats ==
    /\ ServiceIdle
    /\ HttpIdle
    /\ CacheIdle
    /\ RrfIdle
    /\ ClassifierIdle
    /\ s_pc = [c \in Calls |-> "read_exact"]
    /\ s_time \in [Calls -> CallTimes]
    /\ s_read = [c \in Calls |-> 0]

\* the step of call c that reads the entry `key` of the dict
StatsRead(c, at, key, then) ==
    /\ s_pc[c] = at
    /\ s_read' = [s_read EXCEPT ![c] = fusion_stats[key]]
    /\ s_pc' = [s_pc EXCEPT ![c] = then]
    /\ UNCHANGED << fusion_stats, s_time, callVars, httpVars, cacheVars, rrfVars, classifierVars >>

\* the step of call c that writes `value` to the entry `key` of the dict
StatsWrite(c, at, key, value, then) ==
    /\ s_pc[c] = at
    /\ fusion_stats' = [fusion_stats EXCEPT ![key] = value]
    /\ s_pc' = [s_pc EXCEPT ![c] = then]
    /\ UNCHANGED << s_read, s_time, callVars, httpVars, cacheVars, rrfVars, classifierVars >>

\* self._fusion_stats['avg_exact_time'] = (self._fusion_stats['avg_exact_time']
\* * 0.9 + search_time * 0.1), in the exact worker of the call: the read
ReadExactTime ==
    \E c \in Calls : StatsRead(c, "read_exact", "avg_exact_time", "write_exact")

\* ... and the write
WriteExactTime ==
    \E c \in Calls :
        StatsWrite(c, "write_exact", "avg_exact_time", Ema(s_read[c], s_time[c]),
                   "read_total")

\* self._fusion_stats['total_fusion_searches'] += 1: the read
ReadTotal ==
    \E c \in Calls :
        StatsRead(c, "read_total", "total_fusion_searches", "write_total")

\* ... and the write
WriteTotal ==
    \E c \in Calls :
        StatsWrite(c, "write_total", "total_fusion_searches", s_read[c] + 1,
                   "read_avg")

\* self._fusion_stats['avg_total_fusion_time'] = (... * 0.9 + total_time * 0.1):
\* the read
ReadTotalTime ==
    \E c \in Calls :
        StatsRead(c, "read_avg", "avg_total_fusion_time", "write_avg")

\* ... and the write
WriteTotalTime ==
    \E c \in Calls :
        StatsWrite(c, "write_avg", "avg_total_fusion_time",
                   Ema(s_read[c], s_time[c]), "done")

NextStats ==
    \/ ReadExactTime
    \/ WriteExactTime
    \/ ReadTotal
    \/ WriteTotal
    \/ ReadTotalTime
    \/ WriteTotalTime

SpecStats ==
    InitStats /\ [][NextStats]_vars

AllCallsDone ==
    \A c \in Calls : s_pc[c] = "done"

RECURSIVE SerialAverages(_, _)
\* the averages that the calls of a set leave when they update one after the
\* other, in any order
SerialAverages(avg, calls) ==
    IF calls = {}
    THEN {avg}
    ELSE UNION {SerialAverages(Ema(avg, s_time[c]), calls \ {c}) : c \in calls}

RECURSIVE WholeAverages(_, _)
\* the averages that up to n whole read-modify-writes of calls lead to
WholeAverages(avg, n) ==
    IF n = 0
    THEN {avg}
    ELSE {avg} \cup UNION {WholeAverages(Ema(avg, s_time[c]), n - 1) : c \in Calls}

\* C14: under any interleaving of N concurrent fusion-search calls on the same
\* service the shared stats updates are atomic: after all N calls complete,
\* total_fusion_searches has increased by exactly N (no lost update), and each
\* rolling average is the result of a whole read-modify-write of some call.
C14_StatsAtomic ==
    AllCallsDone =>
        /\ fusion_stats.total_fusion_searches = MaxCalls
        /\ fusion_stats.avg_total_fusion_time \in WholeAverages(0, MaxCalls) \ {0}
        /\ fusion_stats.avg_exact_time \in WholeAverages(0, MaxCalls) \ {0}

\* the averages are never a partially written value
AveragesWhole ==
    /\ fusion_stats.avg_total_fusion_time \in WholeAverages(0, MaxCalls)
    /\ fusion_stats.avg_exact_time \in WholeAverages(0, MaxCalls)

\* the averages are those of the calls updating one after the other
AveragesSerial ==
    AllCallsDone =>
        /\ fusion_stats.avg_total_fusion_time \in SerialAverages(0, Calls)
        /\ fusion_stats.avg_exact_time \in SerialAverages(0, Calls)

(***************************************************************************)
(* SimplifiedParallelSearch.parallel_search, the asyncio variant           *)
(* (scripts/parallel_search_fusion.py).  exact_search_async and            *)
(* vector_search_async have the bodies of the two workers of the service;  *)
(* they are coroutines that asyncio.gather makes tasks of one event loop.  *)
(* The loop runs one task at a time and a task gives the loop back only at *)
(* an await: neither coroutine has one, its store calls block the loop.    *)
(***************************************************************************)
\* the task the event loop runs: the tasks are started in the order gather
\* got them, and each runs until it returns
LoopRuns ==
    IF pc # "gather" THEN "main"
    ELSE IF e_pc # "done" THEN "exact"
    ELSE IF v_pc # "done" THEN "vector"
    ELSE "main"

\* exact_task = self.exact_search_async(query, count); vector_task =
\* self.vector_search_async(query, count * 2); await asyncio.gather(exact_task,
\* vector_task): both tasks are handed to the loop and parallel_search waits
AsyncGather ==
    /\ pc = "start"
    /\ pc' = "gather"
    /\ e_pc' = "lookup"
    /\ e_field' = 1
    /\ e_results' = <<>>
    /\ e_future' = "pending"
    /\ v_pc' = "embed"
    /\ v_results' = <<>>
    /\ v_future' = "pending"
    /\ UNCHANGED << inputVars, e_calls, v_vector, v_calls, fusionVars, output,
                    fusion_stats, response, otherVars >>

\* the loop runs the task of exact_search_async
AsyncExactLookup ==
    LoopRuns = "exact" /\ ExactLookup

AsyncExactReturn ==
    LoopRuns = "exact" /\ ExactReturn

\* the loop runs the task of vector_search_async
AsyncVectorEmbed ==
    LoopRuns = "vector" /\ VectorEmbed

AsyncVectorQuery ==
    LoopRuns = "vector" /\ VectorQuery

AsyncVectorReturn ==
    LoopRuns = "vector" /\ VectorReturn

\* "exact_results, vector_results = await asyncio.gather(...)" resumes when
\* both tasks have returned
AsyncResume ==
    /\ pc = "gather"
    /\ LoopRuns = "main"
    /\ FutureDone(e_future)
    /\ FutureDone(v_future)
    /\ pc' = "fusion"
    /\ exact_results' = e_results
    /\ vector_results' = v_results
    /\ UNCHANGED << inputVars, exactVars, vectorVars, all_idx, seen_ids,
                    fused_results, last_result, output, fusion_stats, response,
                    otherVars >>

\* simple_fusion, the stats update and "return fused_results[:count]"
AsyncFuseAndReturn ==
    LoopRuns = "main" /\ FuseAndReturn

NextAsync ==
    \/ AsyncGather
    \/ AsyncExactLookup
    \/ AsyncExactReturn
    \/ AsyncVectorEmbed
    \/ AsyncVectorQuery
    \/ AsyncVectorReturn
    \/ AsyncResume
    \/ AsyncFuseAndReturn

SpecAsync ==
    Init /\ [][NextAsync]_vars

\* the exact sub-search has called the store and has not returned
ExactInFlight ==
    e_pc \in {"lookup", "stats"} /\ e_calls # <<>>

\* the vector sub-search has called the embedder or the store and has not
\* returned
VectorInFlight ==
    v_pc \in {"embed", "query", "stats"} /\ v_calls # <<>>

\* both sub-searches have started and neither has finished
BothInFlight ==
    ExactInFlight /\ VectorInFlight

\* the vector sub-search has been dispatched and has not returned
VectorDispatched ==
    v_pc \in {"embed", "query", "stats"}

\* C17: the orchestrator runs the exact and the vector sub-search as two truly
\* concurrent units, in the asyncio variant as in the threaded service: while
\* the exact sub-search is in flight, the vector sub-search that was dispatched
\* with it can make its own calls, so that both are in flight at once.
C17_TrulyConcurrent ==
    (ExactInFlight /\ VectorDispatched) =>
        ENABLED (AsyncVectorEmbed \/ AsyncVectorQuery \/ AsyncVectorReturn)

\* the same of the threaded service: the vector worker can run whenever it
\* was submitted and has not returned
ThreadsTrulyConcurrent ==
    (ExactInFlight /\ VectorDispatched) =>
        ENABLED (VectorEmbed \/ VectorQuery \/ VectorReturn)

\* the two sub-searches are never in flight at once
NeverBothInFlight ==
    ~BothInFlight

(***************************************************************************)
(* The embedding cache: functools.lru_cache on the method                  *)
(* _get_embedding_cached.  The decorator wraps the function of the class,  *)
(* so there is one cache for all instances of the class and its            *)
(* subclasses, and the key of an entry is the pair (self, text).           *)
(* cache lists the entries from the least to the most recently used.       *)
(***************************************************************************)
\* @lru_cache(maxsize=1000): the capacity, scaled down
maxsize ==
    2

\* the number of operations followed
MaxOps ==
    4

\* search_service = UltraFastSearchService(); lean_search_service =
\* LeanSearchService()
Instances ==
    {"search_service", "lean_search_service"}

\* the texts looked up: they differ in case and blanks only
CacheTexts ==
    Queries

\* a slip: instances do not tell keys apart, the text alone is the key
CacheKeyTextOnly(inst, text) ==
    <<None, text>>

\* the key lru_cache makes of the arguments (self, text)
CacheKey(inst, text) ==
    <<inst, text>>

\* the position of a key in the cache, 0 when it is not cached
CachePos(c, key) ==
    IF \E i \in Idx(c) : c[i].key = key
    THEN CHOOSE i \in Idx(c) : c[i].key = key
    ELSE 0

RemoveAt(c, i) ==
    SubSeq(c, 1, i - 1) \o SubSeq(c, i + 1, Len(c))

\* a slip: a hit leaves the entry where it is (first in, first out)
HitKeepsPlace(c, i) ==
    c

\* a hit makes the entry the most recently used
MoveToEnd(c, i) ==
    RemoveAt(c, i) \o <<c[i]>>

\* a slip: the newest entry survives
CacheClearKeepsNewest(c) ==
    IF c = <<>> THEN c ELSE <<c[Len(c)]>>

\* cache_clear()
CacheClear(c) ==
    <<>>

\* a slip: the fallback of a failed call is returned but not kept
StoreUnlessFailed(c, entry, failed) ==
    IF failed
    THEN c
    ELSE Append(IF Len(c) >= maxsize THEN Tail(c) ELSE c, entry)

\* lru_cache keeps what the function returned, the fallback of the except
\* branch included, in place of the least recently used entry when it is full
StoreResult(c, entry, failed) ==
    Append(IF Len(c) >= maxsize THEN Tail(c) ELSE c, entry)

\* A call of self._get_embedding_cached(text) at time `now`: on a hit the
\* cached value, without a call of the function; on a miss the value the
\* function returns (the fallback when the embedder fails), stored in place
\* of the least recently used entry when the cache is full.
LruLookup(c, inst, text, failed, now) ==
    LET key == CacheKey(inst, text)
        i == CachePos(c, key)
    IN  IF i > 0
        THEN [cache |-> MoveToEnd([c EXCEPT ![i].used = now], i),
              value |-> c[i].value, hit |-> TRUE, called |-> FALSE,
              failed |-> FALSE, dropped |-> <<>>]
        ELSE LET value == EmbeddingOrFallback(text, failed)
                 full == Len(c) >= maxsize
             IN  [cache |-> StoreResult(c, [key |-> key, value |-> value,
                                            added |-> now, used |-> now],
                                        failed),
                  value |-> value, hit |-> FALSE, called |-> TRUE,
                  failed |-> failed,
                  dropped |-> IF full THEN <<c[1]>> ELSE <<>>]

Operation(op, inst, text, looked) ==
    [op |-> op, inst |-> inst, text |-> text, value |-> looked.value,
     hit |-> looked.hit, called |-> looked.called, failed |-> looked.failed,
     dropped |-> looked.dropped]

InitCache ==
    /\ ServiceIdle
    /\ HttpIdle
    /\ StatsIdle
    /\ RrfIdle
    /\ ClassifierIdle
    /\ cache = <<>>
    /\ c_stats = [inst \in Instances |-> InitialStats]
    /\ c_last = [op |-> "none", inst |-> None, text |-> <<>>, value |-> <<>>,
                 hit |-> FALSE, called |-> FALSE, failed |-> FALSE,
                 dropped |-> <<>>]
    /\ c_ops = 0

\* search_fusion(query_text, count) of an instance: the vector worker takes the
\* embedding through the cache; the stats of the instance are updated
CachedFusionSearch ==
    /\ c_ops < MaxOps
    /\ \E inst \in Instances : \E text \in CacheTexts :
         \E failed \in BOOLEAN : \E lookups \in 1 .. Len(search_fields) :
           LET looked == LruLookup(cache, inst, text, failed, c_ops + 1)
               vector_time == (IF looked.called THEN 1 ELSE 0) + 1
           IN  /\ failed => looked.called
               /\ cache' = looked.cache
               /\ c_last' = Operation("search_fusion", inst, text, looked)
               /\ c_stats' =
                      [c_stats EXCEPT
                          ![inst] =
                              [@ EXCEPT
                                  !.avg_exact_time = Ema(@, lookups),
                                  !.avg_vector_time = Ema(@, vector_time),
                                  !.avg_fusion_time = Ema(@, 0),
                                  !.total_fusion_searches = @ + 1,
                                  !.avg_total_fusion_time =
                                      Ema(@, lookups + vector_time)]]
    /\ c_ops' = c_ops + 1
    /\ UNCHANGED << serviceVars, httpVars, statsVars, rrfVars, classifierVars >>

\* clear_cache() of an instance
ClearCache ==
    /\ c_ops < MaxOps
    /\ \E inst \in Instances :
         c_last' = [op |-> "clear_cache", inst |-> inst, text |-> <<>>,
                    value |-> <<>>, hit |-> FALSE, called |-> FALSE,
                    failed |-> FALSE, dropped |-> cache]
    /\ cache' = CacheClear(cache)
    /\ c_ops' = c_ops + 1
    /\ UNCHANGED << c_stats, serviceVars, httpVars, statsVars, rrfVars, classifierVars >>

NextCache ==
    \/ CachedFusionSearch
    \/ ClearCache

SpecCache ==
    InitCache /\ [][NextCache]_vars

\* the step is a call of clear_cache
ClearStep ==
    c_ops' # c_ops /\ c_last'.op = "clear_cache"

\* the step is a lookup in the cache
LookupStep ==
    c_ops' # c_ops /\ c_last'.op = "search_fusion"

KeysOf(c) ==
    {c[i].key : i \in Idx(c)}

\* C18: clear_cache empties the embedding cache and leaves every
\* PerformanceStats field (the search counters and all rolling averages, of
\* every instance) unchanged.
C18_ClearCacheFrame ==
    [][ClearStep => (cache' = <<>> /\ c_stats' = c_stats)]_vars

\* clear_cache has emptied a full cache of an instance whose counters and
\* averages had left their initial values
C18_Witness ==
    /\ c_last.op = "clear_cache"
    /\ Len(c_last.dropped) = maxsize
    /\ cache = <<>>
    /\ c_stats[c_last.inst].total_fusion_searches > 1
    /\ c_stats[c_last.inst].avg_exact_time > 0
    /\ c_stats[c_last.inst].avg_vector_time > 0
    /\ c_stats[c_last.inst].avg_total_fusion_time > 0

\* the entry of a cache that was used least recently
LeastRecentlyUsed(c) ==
    CHOOSE e \in {c[i] : i \in Idx(c)} :
        \A i \in Idx(c) : e.used <= c[i].used

\* C19: the embedding cache is keyed by the exact query text (texts that differ
\* only in case or whitespace are distinct keys): a lookup calls the embedder
\* exactly when no entry has the very text looked up, and a lookup of a cached
\* text returns the cached value; the number of cached entries never exceeds
\* the capacity; and when a miss occurs at capacity the entry evicted is the
\* least recently used one.
C19_CacheKeyedBoundedLru ==
    [][LookupStep =>
         LET key == <<c_last'.inst, c_last'.text>>
             cached == \E i \in Idx(cache) : cache[i].key[1] = c_last'.inst
                                             /\ cache[i].key[2] = c_last'.text
         IN  /\ c_last'.called = ~cached
             /\ cached =>
                    /\ \E i \in Idx(cache) :
                           cache[i].key = key /\ cache[i].value = c_last'.value
                    /\ KeysOf(cache') = KeysOf(cache)
             /\ Len(cache') <= maxsize
             /\ Cardinality(KeysOf(cache')) = Len(cache')
             /\ (~cached /\ Len(cache) < maxsize) =>
                    KeysOf(cache') = KeysOf(cache) \cup {key}
             /\ (~cached /\ Len(cache) = maxsize) =>
                    /\ c_last'.dropped = <<LeastRecentlyUsed(cache)>>
                    /\ KeysOf(cache') =
                           (KeysOf(cache) \ {LeastRecentlyUsed(cache).key})
                               \cup {key}
    ]_vars

\* a miss at capacity has evicted the least recently used entry, which was
\* not the oldest: an older entry was used after it; and the cache holds two
\* texts that differ in case or blanks only
C19_Witness ==
    /\ c_last.op = "search_fusion"
    /\ c_last.called
    /\ Len(c_last.dropped) = 1
    /\ \E i \in Idx(cache) : cache[i].added < c_last.dropped[1].added
    /\ \E i, j \in Idx(cache) :
         /\ cache[i].key[1] = cache[j].key[1]
         /\ cache[i].key[2] # cache[j].key[2]
         /\ CleanQuery(cache[i].key[2]) = CleanQuery(cache[j].key[2])

(***************************************************************************)
(* EnhancedIndexing.reciprocal_rank_fusion (scripts/indexing.py).          *)
(* An RRF score is a Python float, 1.0 / (k + rank) or the sum of two.     *)
(* It is modelled by the integer RrfScale(k) times the score, RrfScale(k)  *)
(* being a common multiple of the denominators k + rank, so that the terms *)
(* and their sums are exact.                                               *)
(***************************************************************************)
\* the longest list of points fused
MaxRank ==
    2

\* the values of k tried, the default 60 among them
RrfKs ==
    {0, 1, 60}

\* the values of limit tried
RrfLimits ==
    {-1, 0, 1, 2 * MaxRank}

\* the scores the dense and the sparse search may have given a point
MethodScores ==
    {RelevanceFloor, ExactScore}

RECURSIVE ProductTo(_, _)
ProductTo(k, n) ==
    IF n = 0 THEN 1 ELSE (k + n) * ProductTo(k, n - 1)

\* the common multiple of k + 1 .. k + MaxRank
RrfScale(k) ==
    ProductTo(k, MaxRank)

\* rrf_score = 1.0 / (k + rank)
Reciprocal(k, rank) ==
    RrfScale(k) \div (k + rank)

\* the results of a search of the store: at most MaxRank points, no point
\* twice; `method` tells the objects of one result from those of the other
RankedPoints(method) ==
    {ps \in UNION {[1 .. n -> [id : Points, score : MethodScores, of : {method}]] :
                      n \in 0 .. MaxRank} :
        \A i, j \in Idx(ps) : ps[i].id = ps[j].id => i = j}

\* the position of doc_id in the values of fused_scores, 0 when it is no key
EntryOf(fused, doc_id) ==
    IF \E i \in Idx(fused) : fused[i].point.id = doc_id
    THEN CHOOSE i \in Idx(fused) : fused[i].point.id = doc_id
    ELSE 0

\* a slip: the score of the entry is set, not added to
RrfOverwrite(score, term) ==
    term

\* fused_scores[doc_id]['rrf_score'] += rrf_score
RrfAdd(score, term) ==
    score + term

\* one iteration of "for rank, point in enumerate(dense_results.points, 1)"
DenseStep(fused, point, rank, k) ==
    LET with == IF EntryOf(fused, point.id) = 0
                THEN Append(fused,
                            [rrf_score |-> 0, dense_rank |-> rank, sparse_rank |-> 0,
                             dense_score |-> point.score, sparse_score |-> 0,
                             point |-> point])
                ELSE fused
        i == EntryOf(with, point.id)
    IN  [with EXCEPT ![i].rrf_score = RrfAdd(@, Reciprocal(k, rank))]

\* a slip: an id the dense loop has seen gets no term from the sparse list
SparseSkipsSeen(fused, point, rank, k) ==
    IF EntryOf(fused, point.id) = 0
    THEN Append(fused,
                [rrf_score |-> Reciprocal(k, rank), dense_rank |-> 0,
                 sparse_rank |-> rank, dense_score |-> 0,
                 sparse_score |-> point.score, point |-> point])
    ELSE fused

\* one iteration of "for rank, point in enumerate(sparse_results.points, 1)"
SparseStep(fused, point, rank, k) ==
    LET with == IF EntryOf(fused, point.id) = 0
                THEN Append(fused,
                            [rrf_score |-> 0, dense_rank |-> 0, sparse_rank |-> rank,
                             dense_score |-> 0, sparse_score |-> point.score,
                             point |-> point])
                ELSE [fused EXCEPT
                         ![EntryOf(fused, point.id)].sparse_rank = rank,
                         ![EntryOf(fused, point.id)].sparse_score = point.score]
        i == EntryOf(with, point.id)
    IN  [with EXCEPT ![i].rrf_score = RrfAdd(@, Reciprocal(k, rank))]

\* where sorted(..., key=rrf_score, reverse=True) puts x: the sort is stable
RrfInsertPos(sorted, x) ==
    Cardinality({i \in Idx(sorted) : sorted[i].rrf_score >= x.rrf_score}) + 1

RECURSIVE SortByRrfDesc(_)
\* sorted(fused_scores.values(), key=lambda x: x['rrf_score'], reverse=True)
SortByRrfDesc(list) ==
    IF list = <<>>
    THEN <<>>
    ELSE LET sorted == SortByRrfDesc(SubSeq(list, 1, Len(list) - 1))
             x == list[Len(list)]
             at == RrfInsertPos(sorted, x)
         IN  SubSeq(sorted, 1, at - 1) \o <<x>> \o SubSeq(sorted, at, Len(sorted))

\* a slip: the point keeps the score of its search
KeepsMethodScore(item) ==
    item.point

\* point = item['point']; point.score = item['rrf_score']
ScoredPoint(item) ==
    [item.point EXCEPT !.score = item.rrf_score]

\* the loop "for i, item in enumerate(sorted_results[:limit])"
FinalResults(sorted, n) ==
    LET top == Cut(sorted, n)
    IN  [i \in Idx(top) |-> ScoredPoint(top[i])]

\* where the function goes on after the dense loop has handled `done` points
AfterDense(done) ==
    IF done < Len(dense_results) THEN "dense"
    ELSE IF sparse_results # <<>> THEN "sparse"
    ELSE "sort"

InitRrf ==
    /\ ServiceIdle
    /\ HttpIdle
    /\ StatsIdle
    /\ CacheIdle
    /\ ClassifierIdle
    /\ dense_results \in RankedPoints("dense")
    /\ sparse_results \in RankedPoints("sparse")
    /\ rrf_k \in RrfKs
    /\ rrf_limit \in RrfLimits
    /\ r_pc = AfterDense(0)
    /\ rrf_rank = 1
    /\ fused_scores = <<>>
    /\ final_results = <<>>

\* the dense loop handles the point of the next rank
RrfDense ==
    /\ r_pc = "dense"
    /\ fused_scores' = DenseStep(fused_scores, dense_results[rrf_rank], rrf_rank, rrf_k)
    /\ r_pc' = AfterDense(rrf_rank)
    /\ rrf_rank' = IF r_pc' = "dense" THEN rrf_rank + 1 ELSE 1
    /\ UNCHANGED << dense_results, sparse_results, rrf_k, rrf_limit,
                    final_results, serviceVars, httpVars, statsVars, cacheVars,
                    classifierVars >>

\* the sparse loop handles the point of the next rank
RrfSparse ==
    /\ r_pc = "sparse"
    /\ fused_scores' = SparseStep(fused_scores, sparse_results[rrf_rank], rrf_rank, rrf_k)
    /\ r_pc' = IF rrf_rank < Len(sparse_results) THEN "sparse" ELSE "sort"
    /\ rrf_rank' = IF r_pc' = "sparse" THEN rrf_rank + 1 ELSE 1
    /\ UNCHANGED << dense_results, sparse_results, rrf_k, rrf_limit,
                    final_results, serviceVars, httpVars, statsVars, cacheVars,
                    classifierVars >>

\* the sort, the cut to limit, the scores set, and the return
RrfReturn ==
    /\ r_pc = "sort"
    /\ final_results' = FinalResults(SortByRrfDesc(fused_scores), rrf_limit)
    /\ r_pc' = "done"
    /\ UNCHANGED << dense_results, sparse_results, rrf_k, rrf_limit, rrf_rank,
                    fused_scores, serviceVars, httpVars, statsVars, cacheVars,
                    classifierVars >>

NextRrf ==
    \/ RrfDense
    \/ RrfSparse
    \/ RrfReturn

SpecRrf ==
    InitRrf /\ [][NextRrf]_vars

\* the 1-indexed rank of an id in a list, 0 when it does not occur
RankIn(list, id) ==
    IF \E i \in Idx(list) : list[i].id = id
    THEN CHOOSE i \in Idx(list) : list[i].id = id
    ELSE 0

\* score / RrfScale(k) = 1 / (k + r)
IsReciprocal(score, r) ==
    score * (rrf_k + r) = RrfScale(rrf_k)

\* score / RrfScale(k) = 1 / (k + r1) + 1 / (k + r2)
IsSumOfReciprocals(score, r1, r2) ==
    score * (rrf_k + r1) * (rrf_k + r2) =
        RrfScale(rrf_k) * ((rrf_k + r1) + (rrf_k + r2))

\* C20: for every id in the output of reciprocal_rank_fusion(dense, sparse, k,
\* limit), the score of the hit is the sum of 1/(k+r) over each list in which
\* the id occurs at 1-indexed rank r (one term if it is in one list, two if it
\* is in both); it has replaced the score the hit came in with.
C20_RrfScoreIsSum ==
    r_pc = "done" =>
        \A i \in Idx(final_results) :
            LET hit == final_results[i]
                rd == RankIn(dense_results, hit.id)
                rs == RankIn(sparse_results, hit.id)
            IN  /\ rd + rs > 0
                /\ (rd > 0 /\ rs = 0) => IsReciprocal(hit.score, rd)
                /\ (rd = 0 /\ rs > 0) => IsReciprocal(hit.score, rs)
                /\ (rd > 0 /\ rs > 0) => IsSumOfReciprocals(hit.score, rd, rs)

\* reciprocal_rank_fusion with the default k has returned an id that is in
\* both lists at different ranks and an id that is in one list only
C20_Witness ==
    /\ r_pc = "done"
    /\ rrf_k = 60
    /\ \E i, j \in Idx(final_results) :
         /\ RankIn(dense_results, final_results[i].id) = 2
         /\ RankIn(sparse_results, final_results[i].id) = 1
         /\ final_results[i].score # dense_results[2].score
         /\ RankIn(dense_results, final_results[j].id) = 0
         /\ RankIn(sparse_results, final_results[j].id) = 2

RECURSIVE DenseLoop(_, _, _, _)
\* "for rank, point in enumerate(dense_results.points, 1)", from `rank` on
DenseLoop(fused, points, rank, k) ==
    IF rank > Len(points)
    THEN fused
    ELSE DenseLoop(DenseStep(fused, points[rank], rank, k), points, rank + 1, k)

RECURSIVE SparseLoop(_, _, _, _)
\* "for rank, point in enumerate(sparse_results.points, 1)", from `rank` on
SparseLoop(fused, points, rank, k) ==
    IF rank > Len(points)
    THEN fused
    ELSE SparseLoop(SparseStep(fused, points[rank], rank, k), points, rank + 1, k)

\* fused_scores as the two loops leave it for the lists dense and sparse
FusedScores(dense, sparse, k) ==
    SparseLoop(DenseLoop(<<>>, dense, 1, k), sparse, 1, k)

\* the list without the point of this id: the others keep their order
WithoutId(list, id) ==
    SelectSeq(list, LAMBDA p : p.id # id)

\* fused_scores[doc_id]['rrf_score']
RrfScoreOf(fused, doc_id) ==
    fused[EntryOf(fused, doc_id)].rrf_score

\* the ids that are in both lists
InBothLists ==
    {id \in Points : RankIn(dense_results, id) > 0 /\ RankIn(sparse_results, id) > 0}

\* C21: RRF consensus reward: for any k > 0 and any ranks, an id that occurs
\* in both the dense and the sparse list has a strictly higher fused score
\* than the same id has when it occurs in only one of the lists at the same
\* rank (the other list being without it).
C21_ConsensusReward ==
    (r_pc \in {"sort", "done"} /\ rrf_k > 0) =>
        \A id \in InBothLists :
            /\ RrfScoreOf(fused_scores, id) >
                   RrfScoreOf(FusedScores(dense_results, WithoutId(sparse_results, id),
                                          rrf_k), id)
            /\ RrfScoreOf(fused_scores, id) >
                   RrfScoreOf(FusedScores(WithoutId(dense_results, id), sparse_results,
                                          rrf_k), id)

\* both loops have run with the default k over lists that share an id, which
\* is at rank 1 of the dense list and at rank 2 of the sparse list
C21_Witness ==
    /\ r_pc = "sort"
    /\ rrf_k = 60
    /\ \E id \in InBothLists :
         /\ RankIn(dense_results, id) = 1
         /\ RankIn(sparse_results, id) = 2

\* the distinct ids of dense U sparse
RrfIds ==
    {dense_results[i].id : i \in Idx(dense_results)} \cup
    {sparse_results[i].id : i \in Idx(sparse_results)}

\* the ids of the points returned
ReturnedIds ==
    {final_results[i].id : i \in Idx(final_results)}

\* the three parts of the claim C22 for the call that has returned
TopLimitOfDistinctIds ==
    /\ Len(final_results) = Min(rrf_limit, Cardinality(RrfIds))
    /\ \A i, j \in Idx(final_results) :
         /\ final_results[i].id = final_results[j].id => i = j
         /\ i < j => final_results[i].score >= final_results[j].score
    /\ ReturnedIds \subseteq RrfIds
    /\ \A id \in RrfIds \ ReturnedIds : \A j \in Idx(final_results) :
         RrfScoreOf(fused_scores, id) <= final_results[j].score

\* C22: the output of reciprocal_rank_fusion is the first `limit` entries of
\* all distinct ids of dense U sparse ordered by accumulated RRF score
\* descending: it has length min(limit, number of distinct ids), contains no
\* id twice, and no omitted id has a strictly higher RRF score than an
\* included one.
C22_TopLimitOfDistinctIds ==
    r_pc = "done" => TopLimitOfDistinctIds

\* The same for the limits that are not negative.
TopLimitFromZero ==
    (r_pc = "done" /\ rrf_limit >= 0) => TopLimitOfDistinctIds

\* the call reciprocal_rank_fusion(dense, sparse, k, -1) over two distinct ids
\* has returned one point
NegativeLimitReturnsPoints ==
    /\ r_pc = "done"
    /\ rrf_limit = -1
    /\ Cardinality(RrfIds) = 2
    /\ Len(final_results) = 1

(***************************************************************************)
(* The searchType of a fused hit (SpecFuse)                                *)
(***************************************************************************)
RECURSIVE TypesOf(_, _)
\* the search types of the hits of this id in the list, in the list's order
TypesOf(list, id) ==
    IF list = <<>>
    THEN <<>>
    ELSE (IF Head(list).id = id THEN Head(list).search_type ELSE <<>>)
             \o TypesOf(Tail(list), id)

\* the hits the loop "for result in all_results" has handled
Handled ==
    IF pc = "fuse"
    THEN SubSeq(exact_results \o vector_results, 1, all_idx - 1)
    ELSE exact_results \o vector_results

\* C30: in the output of simple_fusion, the searchType of each hit is the
\* "+"-joined sequence of the searchTypes of all input hits with that id, in
\* the order they occur in exact ++ vector: it has as many components as
\* there are input hits carrying that id.
C30_SearchTypeListsEveryHit ==
    /\ \A i \in Idx(fused_results) :
         /\ fused_results[i].search_type = TypesOf(Handled, fused_results[i].id)
         /\ Len(fused_results[i].search_type) =
                Cardinality({j \in Idx(Handled) : Handled[j].id = fused_results[i].id})
    /\ pc = "done" =>
         \A i \in Idx(output) :
             output[i].search_type =
                 TypesOf(exact_results \o vector_results, output[i].id)

\* simple_fusion has returned a hit of an id that two primary-field exact
\* hits and one vector hit carry: "exact+exact+vector"
C30_Witness ==
    /\ pc = "done"
    /\ \E i \in Idx(output) :
         /\ output[i].search_type = <<"exact", "exact", "vector">>
         /\ Len(exact_results) = 2

(***************************************************************************)
(* The fallback in the cache, and the cache shared by the instances        *)
(* (SpecCache)                                                             *)
(***************************************************************************)
\* the entries of the cache that hold the fallback vector
FallbackEntries(c) ==
    {i \in Idx(c) : c[i].value = ZeroVector}

\* C28: when the embedder fails for a text t, the zero vector returned as
\* fallback by _get_embedding_cached is stored in the cache under t, so every
\* later lookup of t returns the zero vector without calling the embedder
\* again, until clear_cache is called or the entry is evicted.
C28_FallbackIsCached ==
    [][/\ LookupStep =>
            LET key == <<c_last'.inst, c_last'.text>>
                at == CachePos(cache, key)
            IN  /\ c_last'.failed =>
                       /\ c_last'.value = ZeroVector
                       /\ \E i \in FallbackEntries(cache') : cache'[i].key = key
                /\ (at > 0 /\ at \in FallbackEntries(cache)) =>
                       /\ ~c_last'.called
                       /\ c_last'.value = ZeroVector
                       /\ \E i \in FallbackEntries(cache') : cache'[i].key = key
       /\ \A i \in FallbackEntries(cache) :
            \/ \E j \in FallbackEntries(cache') : cache'[j].key = cache[i].key
            \/ ClearStep
            \/ LookupStep /\ c_last'.dropped = <<cache[i]>>
    ]_vars

\* a lookup has returned the zero vector from the cache, without a call of
\* the embedder: the entry was stored by an earlier lookup, whose call failed
C28_Witness ==
    /\ c_last.op = "search_fusion"
    /\ c_last.hit
    /\ ~c_last.called
    /\ c_last.value = ZeroVector
    /\ \E i \in FallbackEntries(cache) :
         /\ cache[i].key = <<c_last.inst, c_last.text>>
         /\ cache[i].added < c_ops

\* the entries of the cache that an instance has stored
EntriesOf(c, inst) ==
    {i \in Idx(c) : c[i].key[1] = inst}

\* C29: the embedding cache is one cache shared by all service instances of
\* the class (entries keyed by instance and text, one capacity for all):
\* clear_cache called on one service instance also removes the cached
\* embeddings of every other instance, and entries of one instance can evict
\* entries of another.
C29_CacheSharedByInstances ==
    [][/\ ClearStep => \A inst \in Instances : EntriesOf(cache', inst) = {}
       /\ Len(cache') <= maxsize
       /\ LookupStep =>
            LET mine == {i \in EntriesOf(cache, c_last'.inst) :
                             cache[i].key[2] = c_last'.text}
            IN  /\ c_last'.called = (mine = {})
                /\ (mine = {} /\ Len(cache) = maxsize) =>
                       c_last'.dropped = <<cache[1]>>
    ]_vars

\* clear_cache of one instance has removed entries of the other instance
C29_Witness ==
    /\ c_last.op = "clear_cache"
    /\ cache = <<>>
    /\ \E i \in Idx(c_last.dropped) : c_last.dropped[i].key[1] # c_last.inst

\* a lookup of one instance has evicted an entry of the other instance
EvictedByOtherInstance ==
    /\ c_last.op = "search_fusion"
    /\ Len(c_last.dropped) = 1
    /\ c_last.dropped[1].key[1] # c_last.inst
    /\ Len(cache) = maxsize

(***************************************************************************)
(* PartNumberClassifier (scripts/partno_classifier.py).                    *)
(* A regular expression of the code is modelled by a predicate on the text *)
(* that holds exactly when re.search or re.match finds a match.  A line    *)
(* "+3: Contains both letters and numbers" of the explanation is modelled  *)
(* by the pair of the text before the colon and the text after it.         *)
(***************************************************************************)
\* [A-Za-z]
LetterChars ==
    {LowerLetters[i] : i \in Idx(LowerLetters)} \cup
    {UpperLetters[i] : i \in Idx(UpperLetters)}

\* [0-9]
DigitChars ==
    {"0", "1", "2", "3", "4", "5", "6", "7", "8", "9"}

\* \w
WordChars ==
    LetterChars \cup DigitChars \cup {"_"}

\* the lower case letter of each upper case letter
ToLower ==
    [c \in {UpperLetters[i] : i \in Idx(UpperLetters)} |->
        LowerLetters[CHOOSE i \in Idx(UpperLetters) : UpperLetters[i] = c]]

LowerOf(c) ==
    IF c \in DOMAIN ToLower THEN ToLower[c] ELSE c

\* str.lower()
Lower(text) ==
    [i \in Idx(text) |-> LowerOf(text[i])]

\* self.common_prefixes
common_prefixes ==
    {<<"R", "A", "D">>, <<"P", "I", "P">>, <<"M", "I", "L">>,
     <<"L", "I", "N">>, <<"N", "O", "R">>, <<"M", "S", "A">>,
     <<"E", "S", "A">>, <<"H", "Y", "P">>, <<"K", "O", "I">>,
     <<"W", "B", "U">>, <<"C", "B", "R">>, <<"H", "O", "U">>,
     <<"B", "O", "S">>, <<"V", "I", "C">>, <<"A", "M", "S">>,
     <<"E", "5", "7">>, <<"N", "I">>}

\* self.consumer_products
consumer_products ==
    {<<"i", "p", "h", "o", "n", "e">>,
     <<"m", "a", "c", "b", "o", "o", "k">>,
     <<"s", "u", "r", "f", "a", "c", "e">>,
     <<"g", "a", "l", "a", "x", "y">>, <<"k", "i", "n", "d", "l", "e">>,
     <<"g", "t", "x">>}

\* self.search_terms
search_terms ==
    {<<"h", "o", "w">>, <<"w", "h", "a", "t">>, <<"w", "h", "e", "r", "e">>,
     <<"w", "h", "e", "n">>, <<"w", "h", "y">>, <<"f", "i", "n", "d">>,
     <<"b", "e", "s", "t">>, <<"g", "o", "o", "d">>,
     <<"b", "e", "t", "t", "e", "r">>, <<"t", "o", "p">>,
     <<"r", "e", "v", "i", "e", "w">>, <<"p", "r", "i", "c", "e">>,
     <<"v", "s">>, <<"v", "e", "r", "s", "u", "s">>, <<"b", "u", "y">>,
     <<"c", "o", "m", "p", "a", "r", "e">>}

\* self.sentence_words
sentence_words ==
    {<<"a">>, <<"a", "n">>, <<"t", "h", "e">>, <<"o", "f">>, <<"i", "n">>,
     <<"f", "o", "r">>, <<"t", "o">>, <<"w", "i", "t", "h">>, <<"b", "y">>,
     <<"i", "s">>, <<"a", "r", "e">>, <<"t", "h", "i", "s">>,
     <<"t", "h", "a", "t">>, <<"t", "h", "e", "s", "e">>,
     <<"t", "h", "o", "s", "e">>}

\* self.doc_ref_terms
doc_ref_terms ==
    {<<"p", "a", "g", "e">>, <<"t", "a", "b", "l", "e">>,
     <<"f", "i", "g", "u", "r", "e">>,
     <<"s", "e", "c", "t", "i", "o", "n">>,
     <<"c", "h", "a", "p", "t", "e", "r">>,
     <<"v", "e", "r", "s", "i", "o", "n">>}

\* the words of the pattern ^(page|table|figure|section|chapter|room)
LeadingReferences ==
    {<<"p", "a", "g", "e">>, <<"t", "a", "b", "l", "e">>,
     <<"f", "i", "g", "u", "r", "e">>,
     <<"s", "e", "c", "t", "i", "o", "n">>,
     <<"c", "h", "a", "p", "t", "e", "r">>, <<"r", "o", "o", "m">>}

\* the labels of the pattern ^(p/n:|part|model|item|no\.)
Labels ==
    {<<"p", "/", "n", ":">>, <<"p", "a", "r", "t">>,
     <<"m", "o", "d", "e", "l">>, <<"i", "t", "e", "m">>, <<"n", "o", ".">>}

\* the endings of the pattern (XL|AL|/[SML]|EU)$, in lower case
Suffixes ==
    {<<"x", "l">>, <<"a", "l">>, <<"/", "s">>, <<"/", "m">>, <<"/", "l">>,
     <<"e", "u">>}

\* s.startswith(prefix)
StartsWith(s, prefix) ==
    Len(s) >= Len(prefix) /\ SubSeq(s, 1, Len(prefix)) = prefix

\* "term in s"
Contains(s, term) ==
    \E i \in 0 .. (Len(s) - Len(term)) : SubSeq(s, i + 1, i + Len(term)) = term

\* re.search(rf'\b{term}\b', s): the term begins and ends with a word
\* character, so \b asks for no word character on either side of it
ContainsWord(s, term) ==
    \E i \in 0 .. (Len(s) - Len(term)) :
        /\ SubSeq(s, i + 1, i + Len(term)) = term
        /\ i = 0 \/ s[i] \notin WordChars
        /\ i + Len(term) = Len(s) \/ s[i + Len(term) + 1] \notin WordChars

\* every character of s[from .. to] is of the class
AllIn(s, from, to, class) ==
    \A i \in from .. to : s[i] \in class

RECURSIVE Split(_)
\* str.split(): the maximal runs of characters that are not whitespace
Split(text) ==
    LET rest == LStrip(text)
        blanks == {i \in Idx(rest) : rest[i] \in Whitespace}
        end == IF blanks = {}
               THEN Len(rest)
               ELSE (CHOOSE i \in blanks : \A j \in blanks : i <= j) - 1
    IN  IF rest = <<>>
        THEN <<>>
        ELSE <<SubSeq(rest, 1, end)>> \o Split(SubSeq(rest, end + 1, Len(rest)))

\* "not query or not query.strip()"
Blank(text) ==
    text = <<>> \/ Strip(text) = <<>>

\* not re.search(r'[0-9]', cleaned)
NoDigits(cleaned) ==
    ~ \E i \in Idx(cleaned) : cleaned[i] \in DigitChars

\* a slip: three characters are enough
TooShortBelowThree(cleaned) ==
    Len(cleaned) < 3

\* len(cleaned) < 4
TooShort(cleaned) ==
    Len(cleaned) < 4

\* a slip: three words are let through
SearchQueryAboveThree(cleaned, words) ==
    /\ Len(words) > 3
    /\ LET lowered == Lower(cleaned)
       IN  \E term \in search_terms : Contains(lowered, term)

\* len(words) > 2 and any(term in cleaned.lower() for term in self.search_terms)
SearchQuery(cleaned, words) ==
    /\ Len(words) > 2
    /\ LET lowered == Lower(cleaned)
       IN  \E term \in search_terms : Contains(lowered, term)

\* re.match(r'^(page|table|figure|section|chapter|room)\s+[0-9]', cleaned,
\* re.IGNORECASE)
LeadingReference(cleaned) ==
    \E word \in LeadingReferences : \E n \in 1 .. Len(cleaned) :
        /\ StartsWith(Lower(cleaned), word)
        /\ Len(cleaned) > Len(word) + n
        /\ AllIn(cleaned, Len(word) + 1, Len(word) + n, Whitespace)
        /\ cleaned[Len(word) + n + 1] \in DigitChars

\* re.search(r'[A-Za-z]', cleaned) and re.search(r'[0-9]', cleaned)
LettersAndDigits(cleaned) ==
    /\ \E i \in Idx(cleaned) : cleaned[i] \in LetterChars
    /\ \E i \in Idx(cleaned) : cleaned[i] \in DigitChars

\* 5 <= len(cleaned) <= 16
TypicalLength(cleaned) ==
    5 <= Len(cleaned) /\ Len(cleaned) <= 16

\* 16 < len(cleaned) <= 20
AcceptableLength(cleaned) ==
    16 < Len(cleaned) /\ Len(cleaned) <= 20

\* re.search(r'[\-\./]', cleaned)
HasSeparator(cleaned) ==
    \E i \in Idx(cleaned) : cleaned[i] \in {"-", ".", "/"}

\* any(cleaned.upper().startswith(prefix) for prefix in self.common_prefixes)
CommonPrefix(cleaned) ==
    \E prefix \in common_prefixes : StartsWith(Upper(cleaned), prefix)

\* re.match(r'^[A-Za-z]{1,3}[0-9]{2,}', cleaned)
LettersThenDigits(cleaned) ==
    \E n \in 1 .. 3 :
        /\ Len(cleaned) >= n + 2
        /\ AllIn(cleaned, 1, n, LetterChars)
        /\ AllIn(cleaned, n + 1, n + 2, DigitChars)

\* re.match(r'^[A-Za-z]', cleaned)
StartsWithLetter(cleaned) ==
    cleaned # <<>> /\ cleaned[1] \in LetterChars

\* re.match(r'^(p/n:|part|model|item|no\.)[\s:]+[a-z0-9]', cleaned,
\* re.IGNORECASE)
LabelPrefix(cleaned) ==
    \E label \in Labels : \E n \in 1 .. Len(cleaned) :
        /\ StartsWith(Lower(cleaned), label)
        /\ Len(cleaned) > Len(label) + n
        /\ AllIn(cleaned, Len(label) + 1, Len(label) + n, Whitespace \cup {":"})
        /\ cleaned[Len(label) + n + 1] \in LetterChars \cup DigitChars

\* re.search(r'([A-Za-z]+[0-9]+){2,}', cleaned): letters, digits, letters
\* and a digit, one after the other
RepeatingPattern(cleaned) ==
    \E i \in Idx(cleaned) :
        /\ cleaned[i] \in LetterChars
        /\ \E j \in (i + 1) .. Len(cleaned) :
             /\ AllIn(cleaned, i + 1, j, DigitChars)
             /\ \E k \in (j + 1) .. (Len(cleaned) - 1) :
                  /\ AllIn(cleaned, j + 1, k, LetterChars)
                  /\ cleaned[k + 1] \in DigitChars

\* re.search(r'[0-9]{3,}', cleaned)
ThreeDigits(cleaned) ==
    \E i \in Idx(cleaned) :
        i + 2 <= Len(cleaned) /\ AllIn(cleaned, i, i + 2, DigitChars)

\* re.search(r'[A-Z0-9]+(XL|AL|/[SML]|EU)$', cleaned, re.IGNORECASE)
SpecificSuffix(cleaned) ==
    \E suffix \in Suffixes :
        /\ Len(cleaned) > Len(suffix)
        /\ SubSeq(Lower(cleaned), Len(cleaned) - Len(suffix) + 1, Len(cleaned)) = suffix
        /\ cleaned[Len(cleaned) - Len(suffix)] \in LetterChars \cup DigitChars

\* any(re.search(rf'\b{term}\b', cleaned.lower()) for term in terms)
AnyWord(cleaned, terms) ==
    LET lowered == Lower(cleaned)
    IN  \E term \in terms : ContainsWord(lowered, term)

\* a slip: a score of 4 is not enough
PassesAbove(score) ==
    score > 4

\* return score >= 4
Passes(score) ==
    score >= 4

\* what is_part_number returned, and <<the score>> when it came to compute one
Classified(result, score) ==
    [result |-> result, score |-> score]

\* the score of is_part_number: each "if" adds or subtracts its points
Score(cleaned, words) ==
    (IF LettersAndDigits(cleaned) THEN 3 ELSE 0)
    + (IF TypicalLength(cleaned) THEN 2
       ELSE IF AcceptableLength(cleaned) THEN 1 ELSE 0)
    + (IF HasSeparator(cleaned) THEN 2 ELSE 0)
    + (IF CommonPrefix(cleaned) THEN 3 ELSE 0)
    + (IF LettersThenDigits(cleaned) THEN 2 ELSE 0)
    + (IF StartsWithLetter(cleaned) THEN 1 ELSE 0)
    + (IF LabelPrefix(cleaned) THEN 2 ELSE 0)
    + (IF RepeatingPattern(cleaned) THEN 2 ELSE 0)
    + (IF ThreeDigits(cleaned) THEN 1 ELSE 0)
    + (IF SpecificSuffix(cleaned) THEN 1 ELSE 0)
    - (IF AnyWord(cleaned, search_terms) THEN 4 ELSE 0)
    - (IF Len(words) >= 4 THEN 4
       ELSE IF Len(words) = 3 THEN 2 ELSE 0)
    - (IF AnyWord(cleaned, sentence_words) THEN 3 ELSE 0)
    - (IF AnyWord(cleaned, consumer_products) THEN 3 ELSE 0)
    - (IF AnyWord(cleaned, doc_ref_terms) THEN 3 ELSE 0)

\* is_part_number(query)
is_part_number(text) ==
    IF Blank(text)
    THEN Classified(FALSE, <<>>)
    ELSE LET cleaned == Strip(text)
             words == Split(cleaned)
         IN  IF NoDigits(cleaned) THEN Classified(FALSE, <<>>)
             ELSE IF TooShort(cleaned) THEN Classified(FALSE, <<>>)
             ELSE IF SearchQuery(cleaned, words) THEN Classified(FALSE, <<>>)
             ELSE IF LeadingReference(cleaned) THEN Classified(FALSE, <<>>)
             ELSE LET score == Score(cleaned, words)
                  IN  Classified(Passes(score), <<score>>)

\* the dict explain_classification returns at a hard rule
Rejected(explanation) ==
    [is_part_number |-> FALSE, explanation |-> explanation]

\* "score += points" or "score -= points" with the line appended to explanation
Rule(fires, points, delta, text) ==
    [fires |-> fires, points |-> points, line |-> <<delta, text>>]

\* the "if"s of explain_classification after the hard rules, in their order
ExplainRules(cleaned, words) ==
    << Rule(LettersAndDigits(cleaned), 3,
            "+3", "Contains both letters and numbers"),
       Rule(TypicalLength(cleaned), 2,
            "+2", "Length is in typical part number range (5-16)"),
       Rule(~TypicalLength(cleaned) /\ AcceptableLength(cleaned), 1,
            "+1", "Length is in acceptable part number range (17-20)"),
       Rule(HasSeparator(cleaned), 2,
            "+2", "Contains a dash, dot or specific separator"),
       Rule(CommonPrefix(cleaned), 3,
            "+3", "Starts with a common part number prefix"),
       Rule(LettersThenDigits(cleaned), 2,
            "+2", "Has a typical part number pattern structure (letters then numbers)"),
       Rule(StartsWithLetter(cleaned), 1,
            "+1", "Starts with letters"),
       Rule(LabelPrefix(cleaned), 2,
            "+2", "Begins with specific part number prefix"),
       Rule(RepeatingPattern(cleaned), 2,
            "+2", "Has repeating alpha-numeric patterns"),
       Rule(ThreeDigits(cleaned), 1,
            "+1", "Contains numbers with 3+ digits"),
       Rule(SpecificSuffix(cleaned), 1,
            "+1", "Has a specific suffix (XL, AL, etc.)"),
       Rule(AnyWord(cleaned, search_terms), -4,
            "-4", "Contains typical search terms"),
       Rule(Len(words) >= 4, -4,
            "-4", "Has 4+ words separated by spaces"),
       Rule(~(Len(words) >= 4) /\ Len(words) = 3, -2,
            "-2", "Has 3 words separated by spaces"),
       Rule(AnyWord(cleaned, sentence_words), -3,
            "-3", "Contains words that look like a sentence"),
       Rule(AnyWord(cleaned, consumer_products), -3,
            "-3", "Contains a consumer product name"),
       Rule(AnyWord(cleaned, doc_ref_terms), -3,
            "-3", "Contains common document references") >>

RECURSIVE Fired(_)
\* the rules that fire, in their order
Fired(rules) ==
    IF rules = <<>>
    THEN <<>>
    ELSE (IF Head(rules).fires THEN <<Head(rules)>> ELSE <<>>) \o Fired(Tail(rules))

RECURSIVE PointsOf(_)
\* the score after the rules
PointsOf(rules) ==
    IF rules = <<>> THEN 0 ELSE Head(rules).points + PointsOf(Tail(rules))

\* a slip: explanation.insert(0, line), the newest line first
ListedNewestFirst(rules) ==
    [i \in Idx(rules) |-> rules[Len(rules) + 1 - i].line]

\* the list explanation: explanation.append(line) for each rule that fires
Listed(rules) ==
    [i \in Idx(rules) |-> rules[i].line]

\* a slip: the threshold of the explanation is one higher
ExplainPassesAbove(score) ==
    score >= 5

\* is_part_number = score >= 4
ExplainPasses(score) ==
    score >= 4

\* explain_classification(query)
explain_classification(text) ==
    IF Blank(text)
    THEN Rejected("Empty query")
    ELSE LET cleaned == Strip(text)
             words == Split(cleaned)
             fired == Fired(ExplainRules(cleaned, words))
             score == PointsOf(fired)
         IN  IF NoDigits(cleaned)
             THEN Rejected("Rejected: Contains no digits")
             ELSE IF TooShort(cleaned)
             THEN Rejected("Rejected: Too short (< 4 characters)")
             ELSE IF SearchQuery(cleaned, words)
             THEN Rejected("Rejected: Multi-word query with search terms")
             ELSE IF LeadingReference(cleaned)
             THEN Rejected("Rejected: Starts with document reference term")
             ELSE [is_part_number |-> ExplainPasses(score),
                   score |-> score,
                   explanation |-> Listed(fired),
                   decision |-> IF ExplainPasses(score)
                                THEN "IS A PART NUMBER"
                                ELSE "IS NOT A PART NUMBER",
                   threshold |-> "Threshold: 4"]

\* the most words of a query
MaxWords ==
    4

\* the words the queries are made of
Vocabulary ==
    {<<"H", "o", "w">>, <<"s", "h", "o", "w">>, <<"t", "h", "e">>,
     <<"g", "t", "x">>, <<"p", "a", "g", "e">>, <<"r", "o", "o", "m">>,
     <<"v", "e", "r", "s", "i", "o", "n">>, <<"p", "a", "r", "t">>,
     <<"1", "2", "3">>, <<"1", "2", "3", "4">>,
     <<"R", "A", "D", "-", "1", "2">>, <<"A", "1", "B", "2">>,
     <<"A", "B", "1", "2", "X", "L">>}

\* the words a query goes on with after its second word
Fillers ==
    {<<"H", "o", "w">>, <<"t", "h", "e">>, <<"1", "2", "3">>}

\* the examples of the specification
Examples ==
    {<<"a", "b", "c">>,
     <<"h", "o", "w", " ", "m", "u", "c", "h", " ", "i", "s", " ", "t", "h", "e", " ", "b", "e", "s", "t", " ", "t", "o", "r", "c", "h">>,
     <<"R", "A", "D", "6", "4", "0", "0", "2", "0", "1", "9">>}

RECURSIVE Joined(_)
\* " ".join(words)
Joined(words) ==
    IF words = <<>> THEN <<>>
    ELSE IF Len(words) = 1 THEN words[1]
    ELSE words[1] \o <<" ">> \o Joined(Tail(words))

\* the queries classified: up to MaxWords words, with or without blanks
\* around them, and the examples
ClassifierQueries ==
    Examples \cup
    {pad \o Joined(head \o tail) \o pad :
        pad \in {<<>>, <<" ">>},
        head \in UNION {[1 .. n -> Vocabulary] : n \in 0 .. 2},
        tail \in UNION {[1 .. n -> Fillers] : n \in 0 .. (MaxWords - 2)}}

InitClassify ==
    /\ ServiceIdle
    /\ HttpIdle
    /\ StatsIdle
    /\ CacheIdle
    /\ RrfIdle
    /\ p_pc = "start"
    /\ p_query \in ClassifierQueries
    /\ p_answer = <<>>
    /\ p_explained = <<>>

\* the caller asks is_part_number(query)
IsPartNumber ==
    /\ p_pc = "start"
    /\ p_answer' = <<is_part_number(p_query)>>
    /\ p_pc' = "classified"
    /\ UNCHANGED << p_query, p_explained, serviceVars, httpVars, statsVars,
                    cacheVars, rrfVars >>

\* the caller asks explain_classification(query)
ExplainClassification ==
    /\ p_pc = "classified"
    /\ p_explained' = <<explain_classification(p_query)>>
    /\ p_pc' = "explained"
    /\ UNCHANGED << p_query, p_answer, serviceVars, httpVars, statsVars,
                    cacheVars, rrfVars >>

NextClassify ==
    \/ IsPartNumber
    \/ ExplainClassification

SpecClassify ==
    InitClassify /\ [][NextClassify]_vars

(***************************************************************************)
(* Properties of the classifier (SpecClassify)                             *)
(***************************************************************************)
\* the query without the blanks around it
Cleaned ==
    Strip(p_query)

\* the number of its words
WordCount ==
    Len(Split(Cleaned))

\* the query starts with a word of the document-reference pattern and goes on
\* with a word that starts with a digit
ReferenceThenNumber ==
    /\ WordCount >= 2
    /\ Lower(Split(Cleaned)[1]) \in LeadingReferences
    /\ Split(Cleaned)[2][1] \in DigitChars

\* the query is of one of the kinds that C23 lists
ListedRejection ==
    \/ Cleaned = <<>>
    \/ \A i \in Idx(Cleaned) : Cleaned[i] \notin DigitChars
    \/ Len(Cleaned) < 4
    \/ /\ WordCount > 2
       /\ \E term \in search_terms : Contains(Lower(Cleaned), term)
    \/ ReferenceThenNumber

Weight(fires, weight) ==
    IF fires THEN <<weight>> ELSE <<>>

\* the listed weights of the signals that fire, in the order C24 lists them
FiredWeights ==
    Weight(LettersAndDigits(Cleaned), 3)
    \o Weight(5 <= Len(Cleaned) /\ Len(Cleaned) <= 16, 2)
    \o Weight(16 < Len(Cleaned) /\ Len(Cleaned) <= 20, 1)
    \o Weight(HasSeparator(Cleaned), 2)
    \o Weight(CommonPrefix(Cleaned), 3)
    \o Weight(LettersThenDigits(Cleaned), 2)
    \o Weight(StartsWithLetter(Cleaned), 1)
    \o Weight(LabelPrefix(Cleaned), 2)
    \o Weight(RepeatingPattern(Cleaned), 2)
    \o Weight(ThreeDigits(Cleaned), 1)
    \o Weight(SpecificSuffix(Cleaned), 1)
    \o Weight(AnyWord(Cleaned, search_terms), -4)
    \o Weight(WordCount >= 4, -4)
    \o Weight(WordCount = 3, -2)
    \o Weight(AnyWord(Cleaned, sentence_words), -3)
    \o Weight(AnyWord(Cleaned, consumer_products), -3)
    \o Weight(AnyWord(Cleaned, doc_ref_terms), -3)

RECURSIVE SumOf(_)
SumOf(numbers) ==
    IF numbers = <<>> THEN 0 ELSE Head(numbers) + SumOf(Tail(numbers))

\* C24: for every query that passes the hard rejection rules, is_part_number
\* returns true exactly when the integer score is >= 4, where the score is the
\* sum of the listed weights of the signals that fire; the two length bands
\* are mutually exclusive and the two word-count penalties are mutually
\* exclusive.
C24_ScoreAndThreshold ==
    (p_pc # "start" /\ ~ListedRejection) =>
        LET score == SumOf(FiredWeights)
            both(first, second) == Len(Weight(first, 1) \o Weight(second, 1)) = 2
        IN  /\ p_answer[1].score = <<score>>
            /\ p_answer[1].result = (score >= 4)
            /\ ~both(5 <= Len(Cleaned) /\ Len(Cleaned) <= 16,
                     16 < Len(Cleaned) /\ Len(Cleaned) <= 20)
            /\ ~both(WordCount >= 4, WordCount = 3)

\* is_part_number has returned true for a query whose score is just 4, after
\* a penalty: the document-reference term "version" costs 3 points
C24_Witness ==
    /\ p_pc = "classified"
    /\ ~ListedRejection
    /\ AnyWord(Cleaned, doc_ref_terms)
    /\ p_answer = <<Classified(TRUE, <<4>>)>>

\* the number that "+3" or "-4" at the head of a line of the explanation says
DeltaOf(delta) ==
    CASE delta = "+1" -> 1
      [] delta = "+2" -> 2
      [] delta = "+3" -> 3
      [] delta = "-2" -> -2
      [] delta = "-3" -> -3
      [] delta = "-4" -> -4

\* the deltas of the lines of the explanation, in their order
ListedDeltas ==
    [i \in Idx(p_explained[1].explanation) |->
        DeltaOf(p_explained[1].explanation[i][1])]

\* C25: for every query that passes the hard rejection rules,
\* explain_classification lists exactly the rules that fired, each with its
\* point delta, in evaluation order (positive signals 1..10, then negative
\* signals 1..5), and the reported score equals the sum of the deltas listed.
C25_ExplanationListsFiredRules ==
    (p_pc = "explained" /\ ~ListedRejection) =>
        /\ "score" \in DOMAIN p_explained[1]
        /\ LET deltas == ListedDeltas
           IN  /\ deltas = FiredWeights
               /\ p_explained[1].score = SumOf(deltas)
        /\ \A i, j \in Idx(p_explained[1].explanation) :
               p_explained[1].explanation[i][2] = p_explained[1].explanation[j][2]
                   => i = j

\* explain_classification has listed positive signals and then penalties: the
\* first line adds 3, the last line takes 3, a line for three words is among
\* them
C25_Witness ==
    /\ p_pc = "explained"
    /\ "score" \in DOMAIN p_explained[1]
    /\ Len(p_explained[1].explanation) >= 5
    /\ p_explained[1].explanation[1][1] = "+3"
    /\ p_explained[1].explanation[Len(p_explained[1].explanation)][1] = "-3"
    /\ \E i \in Idx(p_explained[1].explanation) :
         p_explained[1].explanation[i][1] = "-2"

\* C26: the explain variant and the boolean variant agree on every query:
\* explain_classification(q)["is_part_number"] = is_part_number(q), for
\* queries rejected by a hard rule and for scored queries alike; the two rule
\* sets give the same score.
C26_VariantsAgree ==
    p_pc = "explained" =>
        /\ p_explained[1].is_part_number = p_answer[1].result
        /\ ("score" \in DOMAIN p_explained[1]) = (p_answer[1].score # <<>>)
        /\ "score" \in DOMAIN p_explained[1] =>
               p_answer[1].score = <<p_explained[1].score>>

\* both variants have said yes to a query at the threshold
C26_Witness ==
    /\ p_pc = "explained"
    /\ p_answer[1].result
    /\ p_explained[1].is_part_number
    /\ p_explained[1].score = 4
    /\ p_explained[1].decision = "IS A PART NUMBER"

\* C27: in any query that reaches scoring, the -4 search-intent penalty and a
\* word-count penalty (-2 for 3 words, -4 for 4+ words) never both apply: a
\* query with more than 2 words that contains a search-intent term as a whole
\* word also contains it as a substring and so was already rejected by hard
\* rule 3.
C27_PenaltiesNeverBoth ==
    p_pc # "start" =>
        /\ p_answer[1].score # <<>> =>
               ~(AnyWord(Cleaned, search_terms) /\ WordCount >= 3)
        /\ (WordCount > 2 /\ AnyWord(Cleaned, search_terms)) =>
               /\ \E term \in search_terms : Contains(Lower(Cleaned), term)
               /\ p_answer = <<Classified(FALSE, <<>>)>>

\* hard rule 3 has rejected a query of three words with digits and a known
\* prefix for the whole word "how" in it
C27_Witness ==
    /\ p_pc = "classified"
    /\ WordCount = 3
    /\ AnyWord(Cleaned, search_terms)
    /\ CommonPrefix(Cleaned)
    /\ ~ReferenceThenNumber
    /\ p_answer = <<Classified(FALSE, <<>>)>>

====
